---- MODULE Spec2Model ----
(***************************************************************************)
(* State-machine model of the ComfyUI load balancer: the task queue        *)
(* (task_queue.py), the dispatch callback (main.py), the queue and task    *)
(* endpoints (api/routes.py), the backend registry (backend_manager.py,    *)
(* models.py), the scheduler (scheduler.py) and the upstream bridges       *)
(* (api/websocket.py).                                                     *)
(*                                                                         *)
(* Granularity: every `async with self._lock` block of the TaskQueue is    *)
(* one atomic step, and an action holds at most one of them.  The dispatch *)
(* loop is a process with a program counter (pc); request handlers run     *)
(* between its steps.  An upstream submit is in flight between             *)
(* LoopGetPending and SubmitOk / SubmitFail.                               *)
(*                                                                         *)
(* Environment: a worker answers POST /prompt either with 200 and a        *)
(* prompt_id of its own (unique, as a uuid4 is) or with an error.  The     *)
(* TaskQueue is taken as constructed from the settings (main.py passes it  *)
(* a second argument, which TaskQueue.__init__ does not declare).          *)
(*                                                                         *)
(* Specifications: Spec and WorkerSpec run the queue, the dispatch loop    *)
(* and the request handlers between probe cycles, where the backends keep  *)
(* the class the start-up probes gave them.  AvailabilitySpec and          *)
(* ProbeRaceSpec add a periodic probe cycle (failing, resp. succeeding,    *)
(* answers) and the backend endpoints to the dispatch path; HealthSpec     *)
(* runs the overlapping probe cycles and add_backend alone; TickSpec is    *)
(* the dispatch loop under fair scheduling; BridgeSpec runs the clients'   *)
(* sockets and the routing of worker frames.  LoadSpec runs dispatches     *)
(* against succeeding probe cycles; NumberSpec the extra_data of the       *)
(* submitted bodies; RelaySpec the relay of result and preview frames to   *)
(* clients; BridgeLifeSpec the creation, stopping and reconnection of the  *)
(* bridges; SessionSpec the session id of the submits while backends are   *)
(* enabled, disabled, removed and added.  SchedulerSpec runs a Scheduler   *)
(* on its own over backends of every load and weight; WakeSpec the event   *)
(* of the dispatch loop under fair scheduling; ReconnectSpec the bridges   *)
(* with fair reconnection and a concurrent add and remove; BroadcastSpec   *)
(* the sends of a broadcast; EarlyFrameSpec a submit whose response is     *)
(* handled after the worker's first frames; SocketSpec the downstream      *)
(* sockets by identity.                                                    *)
(***************************************************************************)
EXTENDS Integers, Sequences, FiniteSets, TLC

\* ------------------------------------------------------------ bounds
\* Number of tasks add_task may accept in one run (caps _task_counter).
MaxTasks == 3
\* Upstream cancel requests counted per task.
MaxCancels == 2
\* Health checks started in one run: _do_check runs plus add_backend checks.
MaxChecks == 2
\* Frames the workers emit in one run besides the results of their jobs.
MaxFrames == 1
\* Selections of a scheduler recorded while its backends stay as they are.
MaxPicks == 3
\* Calls of WebSocketManager.broadcast in one run.
MaxBroadcasts == 2

\* ------------------------------------------------------------ settings
\* QueueConfig.max_size, QueueConfig.max_retries (configured values).
max_size == 2
max_retries == 2
\* BackendConfig.max_queue (configured value).
max_queue == 2
\* HealthCheckConfig.healthy_threshold, unhealthy_threshold (configured
\* values).
healthy_threshold == 2
unhealthy_threshold == 2

\* The cap on TaskQueue._completed that mark_completed enforces (1000 in the
\* code), scaled to the number of tasks of a run.
completed_cap == 2

\* Registered backends, in registration order (dict insertion order).
BackendOrder == <<"w1", "w2">>
Backends == {BackendOrder[i] : i \in 1..Len(BackendOrder)}

\* Task ids: the model names a task by the value _task_counter had when
\* add_task created it (the code draws a uuid4; both are unique per task).
TaskIds == 1..MaxTasks
NoTask == 0
NoBackend == "none"
\* Task.prompt_id = None
NoPrompt == <<>>
\* Task.client_id = None (POST /prompt without client_id)
NoClient == "none"

\* Downstream client ids (the clientId of /ws and the client_id of POST
\* /prompt).
ClientIds == {"c1", "c2"}

\* BackendWebSocketBridge.bridge_id = f"LB_BRIDGE_{backend_name}"
bridge_id(b) == IF b = "w1" THEN "LB_BRIDGE_w1" ELSE "LB_BRIDGE_w2"

\* The balancer's task id as it appears in a frame's prompt_id (kept apart
\* from the workers' ids, which are pairs <<backend, n>>).
LbId(t) == <<"lb", t>>

VARIABLES
  pending,          \* TaskQueue._pending   (OrderedDict: sequence of ids)
  dispatched,       \* TaskQueue._dispatched (set of ids)
  completed,        \* TaskQueue._completed (dict: ids in insertion order)
  tasks,            \* the Task objects, by id
  task_counter,     \* TaskQueue._task_counter
  dispatch_event,   \* TaskQueue._dispatch_event
  pc,               \* position of _dispatch_loop
  cur,              \* the task _dispatch_loop handed to the callback
  sel,              \* the backend dispatch_task selected
  backends,         \* BackendManager._backends (BackendState by name)
  worker_jobs,      \* the workers' side: the job accepted for a task
  ws_frames,        \* frames in flight on each bridge's upstream socket
  ws_handled,       \* frames _handle_message has processed, with their bridge
  upstream_cancels, \* cancel requests sent upstream, per task
  prompt_response,  \* outcome of the last POST /prompt
  registry,         \* keys of BackendManager._backends, in insertion order
  probes,           \* check_backend_health calls in flight, by caller and backend
  cycles,           \* HealthChecker._do_check runs: state and old_status
  checks_started,   \* _do_check runs and add_backend checks started so far
  fail_run,         \* history: failed probes of a backend since its last good one
  class_changes,    \* history: changes of a backend's status
  broadcasts,       \* history: backend_update broadcasts
  clients,          \* WebSocketManager._clients (connected client ids)
  client_backends,  \* WebSocketManager._client_backends
  prompt_clients,   \* WebSocketManager._prompt_clients
  prompt_lb_ids,    \* WebSocketManager._prompt_lb_ids
  delivered,        \* history: per client, the frames sent to it, in order
  bridges,          \* WebSocketManager._bridges: per name, where its bridge's loop is
  stopping,         \* the bridge remove_backend popped and is stopping, per name
  ws_lock,          \* WebSocketManager._lock: the removal that holds it
  add_waiting,      \* POST /lb/backends requests waiting for that lock
  submit_sid,       \* the client_id dispatch_task passes to submit_prompt
  sched,            \* a Scheduler with the BackendStates it selects from
  bcast,            \* a WebSocketManager.broadcast call: its snapshot and position
  sockets,          \* the downstream WebSocket objects: client id, stage of their endpoint
  client_sockets,   \* WebSocketManager._clients: the socket stored under each client id
  last_send         \* history: the last send_to_client call and the socket it wrote to

vars == <<pending, dispatched, completed, tasks, task_counter, dispatch_event,
          pc, cur, sel, backends, worker_jobs, ws_frames, ws_handled,
          upstream_cancels, prompt_response, registry, probes, cycles,
          checks_started, fail_run, class_changes, broadcasts, clients,
          client_backends, prompt_clients, prompt_lb_ids, delivered,
          bridges, stopping, ws_lock, add_waiting, submit_sid, sched, bcast, sockets,
          client_sockets, last_send>>

queue_vars == <<pending, dispatched, completed, tasks, task_counter>>
loop_vars == <<pc, cur, sel, submit_sid>>
ws_vars == <<ws_frames, ws_handled>>
health_vars == <<registry, probes, cycles, checks_started, fail_run,
                 class_changes, broadcasts>>
client_vars == <<clients, client_backends, prompt_clients, prompt_lb_ids,
                 delivered>>
bridge_vars == <<bridges, stopping, ws_lock, add_waiting>>
\* The state of the components that are run on their own.
downstream_vars == <<bcast, sockets, client_sockets, last_send>>
unit_vars == <<sched, downstream_vars>>

\* ------------------------------------------------------------ helpers
Range(s) == {s[i] : i \in 1..Len(s)}

\* OrderedDict / dict assignment d[k] = v: a present key keeps its place,
\* a new key goes to the end.
DictSet(s, k) == IF k \in Range(s) THEN s ELSE Append(s, k)

\* dict.pop(k, None)
DictPop(s, k) == SelectSeq(s, LAMBDA x : x # k)

\* ------------------------------------------------------------ models.py
\* Optional[dict] values (extra_data): None, or a dict given by its items.
NoExtra == [none |-> TRUE, items |-> {}]
Dict(items) == [none |-> FALSE, items |-> items]

\* Python truth value of an Optional[dict]: None and {} are false.
truthy(x) == ~x.none /\ x.items # {}

\* dict.get(k, default)
dict_get(x, k, default) ==
  IF \E kv \in x.items : kv[1] = k
  THEN (CHOOSE kv \in x.items : kv[1] = k)[2]
  ELSE default

NewTask(c, extra) ==
  [status |-> "queued", backend_name |-> NoBackend, prompt_id |-> NoPrompt,
   retries |-> 0, error |-> FALSE, client_id |-> c, extra_data |-> extra]

total_queue(b) == backends[b].queue_pending + backends[b].queue_running

is_available(b) ==
  /\ backends[b].enabled
  /\ backends[b].status = "healthy"
  /\ total_queue(b) < max_queue

is_idle(b) == is_available(b) /\ total_queue(b) = 0

\* ------------------------------------------------------------ backend_manager.py
\* Lists keep registration order (the order of the dict's keys).
get_available_backends == SelectSeq(registry, is_available)
get_idle_backends == SelectSeq(registry, is_idle)

\* ------------------------------------------------------------ scheduler.py
\* sorted(backends, key=total_queue)[0]: sorted is stable, so the first
\* backend of minimal load.
LeastBusySelect(bs) ==
  IF bs = <<>> THEN NoBackend
  ELSE LET i == CHOOSE i \in 1..Len(bs) :
                  /\ \A j \in 1..Len(bs) : total_queue(bs[i]) <= total_queue(bs[j])
                  /\ \A j \in 1..(i - 1) : total_queue(bs[j]) > total_queue(bs[i])
       IN bs[i]

\* Mutant of select_backend: the first registered backend, available or not.
select_backend_any == IF registry # <<>> THEN registry[1] ELSE NoBackend

\* Scheduler.select_backend with prefer_idle = True, strategy least_busy
\* (the defaults of SchedulerConfig).
select_backend ==
  IF get_idle_backends # <<>> THEN LeastBusySelect(get_idle_backends)
  ELSE LeastBusySelect(get_available_backends)

\* ------------------------------------------------------------ float
\* Python's float is the IEEE binary64 format: a positive value is kept as
\* mant (float_precision bits, the first one 1) and exp, and stands for
\* 0.mant * 2^exp.  Each operation is rounded to the nearest value, ties to
\* the even mantissa.
float_precision == 53

\* The bits of the natural number n, most significant first (<<>> for 0).
RECURSIVE int_bits(_)
int_bits(n) == IF n = 0 THEN <<>> ELSE Append(int_bits(n \div 2), n % 2)

\* bits + 1, as a number of the same length (all zeros on overflow): a
\* bit flips when every bit after it is 1.
bits_increment(bits) ==
  [i \in 1..Len(bits) |->
     IF \A j \in (i + 1)..Len(bits) : bits[j] = 1 THEN 1 - bits[i] ELSE bits[i]]

\* Rounding of the exact value 0.bits * 2^e (bits[1] = 1, at least
\* float_precision bits; sticky says that a non-zero rest follows the bits).
float_round(bits, e, sticky) ==
  LET P == float_precision
      kept == SubSeq(bits, 1, P)
      guard == IF Len(bits) > P THEN bits[P + 1] ELSE 0
      rest == sticky \/ \E i \in (P + 2)..Len(bits) : bits[i] = 1
      up == guard = 1 /\ (rest \/ kept[P] = 1)
      sum == bits_increment(kept)
  IN IF ~up THEN [mant |-> kept, exp |-> e]
     ELSE IF sum[1] = 1 THEN [mant |-> sum, exp |-> e]
     ELSE [mant |-> [sum EXCEPT ![1] = 1], exp |-> e + 1]

\* Long division of r/d (0 <= r < d): the remainder left after k bits of
\* the quotient, and the first k bits after the binary point.
RECURSIVE remainder_after(_, _, _)
remainder_after(r, d, k) ==
  IF k = 0 THEN r ELSE remainder_after((2 * r) % d, d, k - 1)

quotient_bits(r, d, k) ==
  [i \in 1..k |-> IF 2 * remainder_after(r, d, i - 1) >= d THEN 1 ELSE 0]

\* The zero bits of r/d after the binary point before its first 1 bit.
RECURSIVE leading_zeros(_, _)
leading_zeros(r, d) == IF 2 * r >= d THEN 0 ELSE 1 + leading_zeros(2 * r, d)

\* 2^k
RECURSIVE pow2(_)
pow2(k) == IF k = 0 THEN 1 ELSE 2 * pow2(k - 1)

\* 1.0 / d for an integer-valued float d >= 1.
float_reciprocal(d) ==
  IF d = 1 THEN [mant |-> [i \in 1..float_precision |-> IF i = 1 THEN 1 ELSE 0],
                 exp |-> 1]
  ELSE float_round(
         quotient_bits(pow2(leading_zeros(1, d)), d, float_precision + 1),
         0 - leading_zeros(1, d),
         remainder_after(pow2(leading_zeros(1, d)), d, float_precision + 1) # 0)

\* Multiplication of the bits mant by w: the carry that enters position i
\* from the positions after it, and the bits of the product.
RECURSIVE carry_into(_, _, _)
carry_into(mant, w, i) ==
  IF i = Len(mant) THEN 0
  ELSE (mant[i + 1] * w + carry_into(mant, w, i + 1)) \div 2

product_bits(mant, w) ==
  int_bits((mant[1] * w + carry_into(mant, w, 1)) \div 2)
    \o [i \in 1..Len(mant) |-> (mant[i] * w + carry_into(mant, w, i)) % 2]

\* w * f for an integer w >= 1 (exact as a float) and a float f.
float_times(w, f) ==
  float_round(product_bits(f.mant, w),
              f.exp + (Len(product_bits(f.mant, w)) - float_precision), FALSE)

\* f > g
float_greater(f, g) ==
  \/ f.exp > g.exp
  \/ /\ f.exp = g.exp
     /\ \E i \in 1..float_precision :
          /\ f.mant[i] > g.mant[i]
          /\ \A j \in 1..(i - 1) : f.mant[j] = g.mant[j]

\* ------------------------------------------------------------ scheduler.py, on its own
\* The backends a Scheduler is run with, in registration order, and the
\* values their queue_pending and weight take (queue_running is 0 and
\* max_queue is wide_max_queue, so that only its status makes a backend
\* unavailable).
SchedulerNames == <<"w1", "w2", "w3">>
LoadValues == {0, 4, 14}
WeightValues == {3, 9}
wide_max_queue == 15

\* The BackendState properties, on a record (models.py).
state_total_queue(b) == b.queue_pending + b.queue_running
state_is_available(b) ==
  b.enabled /\ b.status = "healthy" /\ state_total_queue(b) < b.max_queue
state_is_idle(b) == state_is_available(b) /\ state_total_queue(b) = 0

\* sorted(bs, key=...): the list in the order of the key, equal keys in the
\* order they had (Python's sort is stable, with reverse=True too).
\* before[i][j]: the key puts element i of the list before element j.
sorted(bs, before) ==
  LET n == Len(bs)
      rank(i) == 1 + Cardinality({j \in (1..n) \ {i} :
                        \/ before[j][i]
                        \/ ~before[i][j] /\ j < i})
  IN [k \in 1..n |-> bs[CHOOSE i \in 1..n : rank(i) = k]]

NoState == [name |-> NoBackend]

\* LeastBusyStrategy.select: key=lambda b: b.total_queue
least_busy_before(bs) ==
  [i \in 1..Len(bs) |->
     [j \in 1..Len(bs) |-> state_total_queue(bs[i]) < state_total_queue(bs[j])]]

\* Mutant of LeastBusyStrategy_select: the last element of the sorted list.
LeastBusyStrategy_select_last(bs) ==
  IF bs = <<>> THEN NoState ELSE sorted(bs, least_busy_before(bs))[Len(bs)]

LeastBusyStrategy_select(bs) ==
  IF bs = <<>> THEN NoState ELSE sorted(bs, least_busy_before(bs))[1]

\* RoundRobinStrategy.select: the backend returned.
RoundRobinStrategy_pick(bs, index) == bs[(index % Len(bs)) + 1]

\* Mutant of RoundRobinStrategy_next: the cursor is reduced but not
\* advanced.
RoundRobinStrategy_next_stuck(bs, index) == index % Len(bs)

\* RoundRobinStrategy.select: the new value of _index.
RoundRobinStrategy_next(bs, index) == (index + 1) % Len(bs)

\* WeightedStrategy.select: score = weight * (1.0 / (1.0 + total_queue)),
\* sorted by score, highest first.
score_of(weight, load) == float_times(weight, float_reciprocal(1 + load))

\* The scores of the weights and loads that occur (computed once).
Scores == [w \in WeightValues |-> [q \in LoadValues |-> score_of(w, q)]]
score(b) == Scores[b.weight][state_total_queue(b)]
\* key=score, reverse=True
weighted_before(bs) ==
  [i \in 1..Len(bs) |->
     [j \in 1..Len(bs) |-> float_greater(score(bs[i]), score(bs[j]))]]
WeightedStrategy_select(bs) ==
  IF bs = <<>> THEN NoState ELSE sorted(bs, weighted_before(bs))[1]

\* Mutant of candidates: prefer_idle is ignored.
candidates_available(s) == SelectSeq(s.backends, state_is_available)

\* The list Scheduler.select_backend hands to the strategy: the idle
\* backends when prefer_idle is set and there are some, else the available
\* ones (possibly none).
candidates(s) ==
  LET idle == SelectSeq(s.backends, state_is_idle)
  IN IF s.prefer_idle /\ idle # <<>> THEN idle
     ELSE SelectSeq(s.backends, state_is_available)

\* Scheduler.select_backend: the backend returned (NoState for None).
scheduler_select(s) ==
  LET bs == candidates(s) IN
  IF bs = <<>> THEN NoState
  ELSE IF s.strategy = "least_busy" THEN LeastBusyStrategy_select(bs)
  ELSE IF s.strategy = "round_robin" THEN RoundRobinStrategy_pick(bs, s.index)
  ELSE WeightedStrategy_select(bs)

\* ------------------------------------------------------------ task_queue.py
\* Mutant of get_pending_task: the newest pending task instead of the oldest.
get_pending_task_newest == IF pending # <<>> THEN pending[Len(pending)] ELSE NoTask

\* get_pending_task: the first value of the OrderedDict, not removed.
get_pending_task == IF pending # <<>> THEN Head(pending) ELSE NoTask

\* Mutant of mark_dispatched: the worker's prompt_id is not stored.
mark_dispatched_no_prompt_id(t, b, p) ==
  /\ tasks' = [tasks EXCEPT ![t].status = "dispatched",
                            ![t].backend_name = b]
  /\ dispatched' = dispatched \cup {t}
  /\ UNCHANGED <<pending, completed, task_counter>>

\* mark_dispatched: sets the binding and adds to _dispatched; _pending and
\* _completed are not touched.
mark_dispatched(t, b, p) ==
  /\ tasks' = [tasks EXCEPT ![t].status = "dispatched",
                            ![t].backend_name = b,
                            ![t].prompt_id = p]
  /\ dispatched' = dispatched \cup {t}
  /\ UNCHANGED <<pending, completed, task_counter>>

\* mark_failed: counts the attempt; below max_retries the task is assigned
\* into _pending again, else it is recorded in _completed as FAILED.
mark_failed(t) ==
  IF tasks[t].retries + 1 < max_retries
  THEN /\ tasks' = [tasks EXCEPT ![t].retries = @ + 1,
                                 ![t].error = TRUE,
                                 ![t].status = "queued",
                                 ![t].backend_name = NoBackend,
                                 ![t].prompt_id = NoPrompt]
       /\ pending' = DictSet(pending, t)
       /\ UNCHANGED <<dispatched, completed, task_counter>>
  ELSE /\ tasks' = [tasks EXCEPT ![t].retries = @ + 1,
                                 ![t].error = TRUE,
                                 ![t].status = "failed"]
       /\ completed' = DictSet(completed, t)
       /\ UNCHANGED <<pending, dispatched, task_counter>>

\* Mutant of cancel_task: the pending branch pops the oldest pending task
\* instead of the task asked for.
cancel_task_pops_head(t) ==
  IF t \in Range(pending)
  THEN /\ pending' = Tail(pending)
       /\ tasks' = [tasks EXCEPT ![t].status = "cancelled"]
       /\ completed' = DictSet(completed, t)
       /\ UNCHANGED <<dispatched, task_counter>>
  ELSE IF t \in dispatched
  THEN /\ tasks' = [tasks EXCEPT ![t].status = "cancelled"]
       /\ UNCHANGED <<pending, dispatched, completed, task_counter>>
  ELSE UNCHANGED queue_vars

\* cancel_task: a pending task moves to _completed as CANCELLED; a
\* dispatched task only has its status set.  Returns found / not found.
cancel_task(t) ==
  IF t \in Range(pending)
  THEN /\ pending' = DictPop(pending, t)
       /\ tasks' = [tasks EXCEPT ![t].status = "cancelled"]
       /\ completed' = DictSet(completed, t)
       /\ UNCHANGED <<dispatched, task_counter>>
  ELSE IF t \in dispatched
  THEN /\ tasks' = [tasks EXCEPT ![t].status = "cancelled"]
       /\ UNCHANGED <<pending, dispatched, completed, task_counter>>
  ELSE UNCHANGED queue_vars

cancel_task_result(t) == t \in Range(pending) \/ t \in dispatched

\* get_task: looks the id up in the three indexes.
get_task(t) ==
  IF t \in Range(pending) \/ t \in dispatched \/ t \in Range(completed)
  THEN t ELSE NoTask

\* get_task_by_prompt_id: the first task of _dispatched, else of
\* _completed, whose prompt_id is p (the workers' ids are unique, so at most
\* one task matches).
get_task_by_prompt_id(p) ==
  IF \E t \in dispatched : tasks[t].prompt_id = p
  THEN CHOOSE t \in dispatched : tasks[t].prompt_id = p
  ELSE IF \E t \in Range(completed) : tasks[t].prompt_id = p
  THEN CHOOSE t \in Range(completed) : tasks[t].prompt_id = p
  ELSE NoTask

\* ------------------------------------------------------------ api/websocket.py
\* associate_client_with_backend: _client_backends[client_id].add(backend).
associate_client_with_backend(cb, c, b) == [cb EXCEPT ![c] = @ \cup {b}]

\* Mutant of manager_lock_free: WebSocketManager.add_backend does not wait
\* for the lock.
manager_lock_skipped == TRUE

\* async with self._lock of the WebSocketManager can be entered: no
\* remove_backend is inside it, waiting for its bridge to stop.
manager_lock_free == ws_lock = NoBackend

\* WebSocketManager.add_backend, under the lock: a bridge is created and
\* started unless _bridges has one under the name.
add_bridge(b) == [bridges EXCEPT ![b] = IF @ = "none" THEN "connecting" ELSE @]

\* get_backend_bridge_id: the bridge's id, None when _bridges has no bridge
\* under the name.
get_backend_bridge_id(b) == IF bridges[b] # "none" THEN bridge_id(b) ELSE NoClient

\* dispatch_task, the client_id of the submit: bridge_sid or task.client_id
\* (None when both are None: the payload then has no client_id).
submit_client_id(b, t) ==
  IF get_backend_bridge_id(b) # NoClient THEN get_backend_bridge_id(b)
  ELSE tasks[t].client_id

\* get_client_by_prompt / get_lb_id_by_prompt: dict.get, None when absent
\* or when the frame has no prompt_id.
get_client_by_prompt(p) ==
  IF p # NoPrompt /\ p \in DOMAIN prompt_clients THEN prompt_clients[p] ELSE NoClient

get_lb_id_by_prompt(p) ==
  IF p # NoPrompt /\ p \in DOMAIN prompt_lb_ids THEN prompt_lb_ids[p] ELSE NoTask

\* _is_system_message (False for a message that is no dict: bytes have no
\* type of that list)
SystemTypes == {"status", "execution_start", "exec_info", "progress", "executed",
                "execution_success", "execution_error", "executing"}
is_system_message(f) == f.type \in SystemTypes

\* broadcast_to_backend_users: the connected clients associated with the
\* backend; when there is none, every connected client for a system
\* message and nobody otherwise.
broadcast_targets(b, f) ==
  LET target_ids == {c \in clients : b \in client_backends[c]}
  IN IF target_ids # {} THEN target_ids
     ELSE IF is_system_message(f) THEN clients ELSE {}

\* _handle_message, the routing decision: the client registered for the
\* frame's prompt_id, else the frame's sid.
target_client_id(f) ==
  IF get_client_by_prompt(f.prompt_id) # NoClient
  THEN get_client_by_prompt(f.prompt_id)
  ELSE f.sid

\* _handle_message, the frame sent to a resolved client: _backend set,
\* prompt_id replaced when an LB id is recorded, sid replaced when the frame
\* has a sid field.
translate(b, f) ==
  [type |-> f.type,
   prompt_id |-> IF get_lb_id_by_prompt(f.prompt_id) # NoTask
                 THEN LbId(get_lb_id_by_prompt(f.prompt_id))
                 ELSE f.prompt_id,
   sid |-> IF f.sid # NoClient THEN target_client_id(f) ELSE NoClient,
   backend |-> b]

\* The frame as broadcast: only _backend is added.
tagged(b, f) ==
  [type |-> f.type, prompt_id |-> f.prompt_id, sid |-> f.sid, backend |-> b]

\* A binary frame as broadcast: the bytes, unchanged.
raw(f) ==
  [type |-> f.type, prompt_id |-> f.prompt_id, sid |-> f.sid, backend |-> NoBackend]

\* async for message in ws: the position, in the socket's buffer, of the
\* frame the reader gets next.
async_for_newest(q) == Len(q)
async_for_next(q) == 1

\* A frame sent to a client, as the history records it: what was sent, by
\* which bridge, and the arrival number of the worker frame it came from.
Sent(frame, b, f) == [frame |-> frame, bridge |-> b, seq |-> f.seq]

\* ------------------------------------------------------------ workers
\* The worker side of POST /prompt: worker b names the job it accepts.
\* Ids of different workers differ (uuid4 in the worker).
AcceptedBy(b) == {t \in TaskIds : worker_jobs[t].backend = b}
WorkerPromptId(b) == <<b, Cardinality(AcceptedBy(b)) + 1>>

\* Jobs worker b still holds.
Held(b) == {t \in TaskIds : worker_jobs[t].backend = b /\ worker_jobs[t].state = "held"}

NoJob == [backend |-> NoBackend, prompt_id |-> NoPrompt, state |-> "none"]

\* The arrival number of the next frame on bridge b's socket: frames are
\* numbered in the order the worker sends them.
NextSeq(b) == Cardinality({h \in ws_handled : h[1] = b}) + Len(ws_frames[b]) + 1

\* ------------------------------------------------------------ health_checker.py
\* Callers of check_backend_health: the periodic _check_loop, check_now
\* (POST /lb/health-check) and add_backend's own check.
CycleOwners == {"periodic", "manual"}
ProbeOwners == CycleOwners \cup {"direct"}

\* A check_backend_health call: not running, GET /queue sent, answered by
\* the worker (ok with its queue lengths, or an error), or applied.  A
\* probe whose backend was unregistered in flight works on an object the
\* registry no longer holds (orphan).
NoProbe == [stage |-> "none", ok |-> FALSE, queue_running |-> 0,
            queue_pending |-> 0, orphan |-> FALSE]

\* A _do_check run: idle or running, with the old_status it recorded
\* ("absent" for a backend not registered when it started).
IdleCycle == [state |-> "idle", old_status |-> [b \in Backends |-> "absent"]]

\* ------------------------------------------------------------ Init
\* The state after lifespan start-up: every configured backend registered
\* and probed by the start-up checks (the first run of _check_loop and the
\* initial check_now): both probes succeeded (HEALTHY), or one probe was
\* applied and failed (still UNKNOWN).
\* BackendState as register_backend creates it.
NewBackend == [enabled |-> TRUE, status |-> "unknown", queue_pending |-> 0,
               queue_running |-> 0, consecutive_failures |-> 0,
               consecutive_successes |-> 0]

ProbedOk == [enabled |-> TRUE, status |-> "healthy", queue_pending |-> 0,
             queue_running |-> 0, consecutive_failures |-> 0,
             consecutive_successes |-> 2]
ProbedFail == [enabled |-> TRUE, status |-> "unknown", queue_pending |-> 0,
               queue_running |-> 0, consecutive_failures |-> 1,
               consecutive_successes |-> 0]

\* Scheduler.__init__ (the cursor is that of its RoundRobinStrategy); picks
\* is the history of the backends returned for the present backend states,
\* each with the cursor the call found.
NewScheduler(bs, strategy, prefer_idle) ==
  [backends |-> bs, strategy |-> strategy, prefer_idle |-> prefer_idle,
   index |-> 0, picks |-> <<>>]

\* A backend configured with enabled: false, probed like the others.
ConfiguredOff == [ProbedOk EXCEPT !.enabled = FALSE]

\* The bridge of a backend after start-up: lifespan starts one for every
\* configured backend that is enabled, and its loop has connected.
StartedBridge(st, configured) ==
  IF ~configured \/ ~st.enabled THEN "none" ELSE "open"

\* The state after start-up with the backends of reg configured, those of
\* off with enabled: false.  A backend that is not configured has no state
\* yet; POST /lb/backends creates it.
\* The downstream WebSocket objects of a run; a socket whose endpoint has
\* not called connect yet; no send_to_client call yet.
SocketIds == {"s1", "s2", "s3"}
NoSocket == "none"
NewSocket == [client_id |-> NoClient, stage |-> "new", seq |-> 0]
NoSend == [client_id |-> NoClient, socket |-> NoSocket]

\* No broadcast call is running; none has run.
NoBroadcast == [stage |-> "idle", snapshot |-> <<>>, pos |-> 1, log |-> <<>>, calls |-> 0]

InitComponents(reg, off) ==
  /\ pending = <<>>
  /\ dispatched = {}
  /\ completed = <<>>
  /\ tasks = [t \in TaskIds |-> NewTask(NoClient, NoExtra)]
  /\ task_counter = 0
  /\ dispatch_event = FALSE
  /\ pc = "wait"
  /\ cur = NoTask
  /\ sel = NoBackend
  /\ backends \in [Backends -> {ProbedOk, ProbedFail, NewBackend, ConfiguredOff}]
  /\ \A b \in Backends : backends[b] = NewBackend <=> b \notin Range(reg)
  /\ \A b \in Backends : backends[b] = ConfiguredOff <=> b \in off
  /\ worker_jobs = [t \in TaskIds |-> NoJob]
  /\ ws_frames = [b \in Backends |-> <<>>]
  /\ ws_handled = {}
  /\ upstream_cancels = [t \in TaskIds |-> 0]
  /\ prompt_response = "none"
  /\ registry = reg
  /\ probes = [o \in ProbeOwners |-> [b \in Backends |-> NoProbe]]
  /\ cycles = [c \in CycleOwners |-> IdleCycle]
  /\ checks_started = 0
  /\ fail_run = [b \in Backends |-> backends[b].consecutive_failures]
  /\ class_changes = 0
  /\ broadcasts = 0
  /\ clients = {}
  /\ client_backends = [c \in ClientIds |-> {}]
  /\ prompt_clients = <<>>
  /\ prompt_lb_ids = <<>>
  /\ delivered = [c \in ClientIds |-> <<>>]
  /\ bridges = [b \in Backends |-> StartedBridge(backends[b], b \in Range(reg))]
  /\ stopping = [b \in Backends |-> "none"]
  /\ ws_lock = NoBackend
  /\ add_waiting = {}
  /\ submit_sid = NoClient
  /\ bcast = NoBroadcast
  /\ sockets = [s \in SocketIds |-> NewSocket]
  /\ client_sockets = [c \in ClientIds |-> NoSocket]
  /\ last_send = NoSend

\* The scheduler that is run on its own has no backends.
InitConfigured(reg, off) ==
  /\ InitComponents(reg, off)
  /\ sched = NewScheduler(<<>>, "least_busy", TRUE)

\* Every configured backend is enabled.
InitRegistered(reg) == InitConfigured(reg, {})

\* Both backends are configured.
Init == InitRegistered(BackendOrder)

\* Both backends are configured, or the first one only.
HealthInit == \E n \in 1..Len(BackendOrder) : InitRegistered(SubSeq(BackendOrder, 1, n))

\* ------------------------------------------------------------ POST /prompt
\* The extra_data of a request body: absent, empty, a dict without a
\* "number", a dict with a "number" of the client's.
ExtraDataBodies ==
  {NoExtra, Dict({}), Dict({<<"seed", 7>>}), Dict({<<"number", 7>>})}

\* Mutant of AddTask: the event is not set after the insert.
AddTaskSilent(c, extra) ==
  /\ task_counter < MaxTasks
  /\ Len(pending) < max_size
  /\ task_counter' = task_counter + 1
  /\ pending' = Append(pending, task_counter + 1)
  /\ tasks' = [tasks EXCEPT ![task_counter + 1] =
        NewTask(c, IF truthy(extra) THEN extra
                   ELSE Dict({<<"number", task_counter + 1>>}))]
  /\ UNCHANGED dispatch_event
  /\ prompt_response' = "accepted"
  /\ UNCHANGED <<dispatched, completed, loop_vars, backends,
                 worker_jobs, ws_vars, upstream_cancels>>
  /\ UNCHANGED <<health_vars, client_vars>>
  /\ UNCHANGED bridge_vars
  /\ UNCHANGED unit_vars

\* submit_prompt -> add_task, the queue has room: the counter is
\* incremented, the task is created for the body's client_id (c, or
\* NoClient) with extra_data = extra_data or {"number": counter} and
\* appended, the dispatch event is set.
AddTask(c, extra) ==
  /\ task_counter < MaxTasks
  /\ Len(pending) < max_size
  /\ task_counter' = task_counter + 1
  /\ pending' = Append(pending, task_counter + 1)
  /\ tasks' = [tasks EXCEPT ![task_counter + 1] =
        NewTask(c, IF truthy(extra) THEN extra
                   ELSE Dict({<<"number", task_counter + 1>>}))]
  /\ dispatch_event' = TRUE
  /\ prompt_response' = "accepted"
  /\ UNCHANGED <<dispatched, completed, loop_vars, backends,
                 worker_jobs, ws_vars, upstream_cancels>>
  /\ UNCHANGED <<health_vars, client_vars>>
  /\ UNCHANGED bridge_vars
  /\ UNCHANGED unit_vars

\* The "number" of the response of an accepted POST /prompt that created
\* task t: task.extra_data.get("number", 0) if task.extra_data else 0.
response_number(t) ==
  IF truthy(tasks[t].extra_data) THEN dict_get(tasks[t].extra_data, "number", 0) ELSE 0

\* submit_prompt -> add_task raises ValueError (queue full) -> 503; the
\* event is not set.
AddTaskFull ==
  /\ Len(pending) >= max_size
  /\ prompt_response' = "queue_full"
  /\ UNCHANGED <<queue_vars, dispatch_event, loop_vars, backends,
                 worker_jobs, ws_vars, upstream_cancels>>
  /\ UNCHANGED <<health_vars, client_vars>>
  /\ UNCHANGED bridge_vars
  /\ UNCHANGED unit_vars

\* ------------------------------------------------------------ _dispatch_loop
\* Mutant of LoopWait: the wait has no timeout and ends with the event only.
LoopWaitEventOnly ==
  /\ pc = "wait"
  /\ dispatch_event
  /\ dispatch_event' = FALSE
  /\ pc' = "peek"
  /\ UNCHANGED <<queue_vars, cur, sel, submit_sid, backends, worker_jobs,
                 ws_vars, upstream_cancels, prompt_response>>
  /\ UNCHANGED <<health_vars, client_vars>>
  /\ UNCHANGED bridge_vars
  /\ UNCHANGED unit_vars

\* wait_for(event, retry_interval) returns (event or timeout), the event is
\* cleared.
LoopWait ==
  /\ pc = "wait"
  /\ dispatch_event' = FALSE
  /\ pc' = "peek"
  /\ UNCHANGED <<queue_vars, cur, sel, submit_sid, backends, worker_jobs,
                 ws_vars, upstream_cancels, prompt_response>>
  /\ UNCHANGED <<health_vars, client_vars>>
  /\ UNCHANGED bridge_vars
  /\ UNCHANGED unit_vars

\* wait_for returns because the event is set (no timeout is needed).
LoopWake ==
  /\ dispatch_event
  /\ LoopWait

\* get_pending_task, then the callback dispatch_task up to the upstream
\* POST /prompt: no pending task or no backend ends the drain; else the
\* bridge id is read, the task's client (if any) is associated with the
\* backend and the submit is sent.  One step where nothing changes the backends between the
\* selection and the submit.
LoopGetPending ==
  /\ pc = "peek"
  /\ (/\ get_pending_task # NoTask
      /\ select_backend # NoBackend
      /\ tasks[get_pending_task].client_id # NoClient) => manager_lock_free
  /\ IF get_pending_task = NoTask \/ select_backend = NoBackend
     THEN /\ pc' = "wait"
          /\ UNCHANGED <<cur, sel, submit_sid>>
          /\ UNCHANGED client_backends
     ELSE /\ cur' = get_pending_task
          /\ sel' = select_backend
          /\ submit_sid' = submit_client_id(select_backend, get_pending_task)
          /\ pc' = "submit"
          /\ client_backends' =
                IF tasks[get_pending_task].client_id # NoClient
                THEN associate_client_with_backend(client_backends,
                        tasks[get_pending_task].client_id, select_backend)
                ELSE client_backends
  /\ UNCHANGED <<queue_vars, dispatch_event, backends, worker_jobs,
                 ws_vars, upstream_cancels, prompt_response>>
  /\ UNCHANGED <<health_vars, clients, prompt_clients, prompt_lb_ids, delivered>>
  /\ UNCHANGED bridge_vars
  /\ UNCHANGED unit_vars

\* The worker answers 200 with its prompt_id: register_prompt when the task
\* has a client, mark_dispatched, the optimistic queue_pending += 1, the
\* callback returns True.
SubmitOk ==
  /\ pc = "submit"
  /\ mark_dispatched(cur, sel, WorkerPromptId(sel))
  /\ worker_jobs' = [worker_jobs EXCEPT ![cur] =
        [backend |-> sel, prompt_id |-> WorkerPromptId(sel), state |-> "held"]]
  /\ backends' = [backends EXCEPT ![sel].queue_pending = @ + 1]
  /\ IF tasks[cur].client_id # NoClient
     THEN /\ prompt_clients' = (WorkerPromptId(sel) :> tasks[cur].client_id) @@ prompt_clients
          /\ prompt_lb_ids' = (WorkerPromptId(sel) :> cur) @@ prompt_lb_ids
     ELSE UNCHANGED <<prompt_clients, prompt_lb_ids>>
  /\ pc' = "pop"
  /\ UNCHANGED <<dispatch_event, cur, sel, submit_sid, ws_vars, upstream_cancels,
                 prompt_response>>
  /\ UNCHANGED <<health_vars, clients, client_backends, delivered>>
  /\ UNCHANGED bridge_vars
  /\ UNCHANGED unit_vars

\* SubmitOk in two steps.  The worker accepts the job and answers 200 with
\* its prompt_id; dispatch_task still awaits the response of submit_prompt.
WorkerAccept ==
  /\ pc = "submit"
  /\ worker_jobs' = [worker_jobs EXCEPT ![cur] =
        [backend |-> sel, prompt_id |-> WorkerPromptId(sel), state |-> "held"]]
  /\ pc' = "answered"
  /\ UNCHANGED <<queue_vars, dispatch_event, cur, sel, submit_sid, backends,
                 ws_vars, upstream_cancels, prompt_response>>
  /\ UNCHANGED <<health_vars, client_vars>>
  /\ UNCHANGED bridge_vars
  /\ UNCHANGED unit_vars

\* dispatch_task goes on with the response: register_prompt when the task
\* has a client, mark_dispatched, queue_pending += 1, it returns True.
SubmitRecord ==
  /\ pc = "answered"
  /\ mark_dispatched(cur, sel, worker_jobs[cur].prompt_id)
  /\ backends' = [backends EXCEPT ![sel].queue_pending = @ + 1]
  /\ IF tasks[cur].client_id # NoClient
     THEN /\ prompt_clients' = (worker_jobs[cur].prompt_id :> tasks[cur].client_id) @@ prompt_clients
          /\ prompt_lb_ids' = (worker_jobs[cur].prompt_id :> cur) @@ prompt_lb_ids
     ELSE UNCHANGED <<prompt_clients, prompt_lb_ids>>
  /\ pc' = "pop"
  /\ UNCHANGED <<dispatch_event, cur, sel, submit_sid, worker_jobs, ws_vars,
                 upstream_cancels, prompt_response>>
  /\ UNCHANGED <<health_vars, clients, client_backends, delivered>>
  /\ UNCHANGED bridge_vars
  /\ UNCHANGED unit_vars

\* The submit raises (non-2xx, connection error, timeout): mark_failed, the
\* callback returns True.
SubmitFail ==
  /\ pc = "submit"
  /\ mark_failed(cur)
  /\ pc' = "pop"
  /\ UNCHANGED <<dispatch_event, cur, sel, submit_sid, backends, worker_jobs,
                 ws_vars, upstream_cancels, prompt_response>>
  /\ UNCHANGED <<health_vars, client_vars>>
  /\ UNCHANGED bridge_vars
  /\ UNCHANGED unit_vars

\* success was True: self._pending.pop(task.id, None), next iteration.
LoopPop ==
  /\ pc = "pop"
  /\ pending' = DictPop(pending, cur)
  /\ pc' = "peek"
  /\ cur' = NoTask
  /\ sel' = NoBackend
  /\ submit_sid' = NoClient
  /\ UNCHANGED <<dispatched, completed, tasks, task_counter, dispatch_event,
                 backends, worker_jobs, ws_vars, upstream_cancels,
                 prompt_response>>
  /\ UNCHANGED <<health_vars, client_vars>>
  /\ UNCHANGED bridge_vars
  /\ UNCHANGED unit_vars

\* ------------------------------------------------------------ POST /queue
\* manage_queue with delete = [t]: get_task, cancel_task, then the upstream
\* cancel when the task carries a binding (cancel_prompt posts to the
\* worker whenever the backend is registered).  Always answers 200.
ManageQueueDelete(t) ==
  /\ t \in 1..task_counter
  /\ IF get_task(t) = NoTask
     THEN UNCHANGED <<queue_vars, upstream_cancels>>
     ELSE /\ cancel_task(t)
          /\ IF tasks'[t].backend_name # NoBackend /\ tasks'[t].prompt_id # NoPrompt
             THEN /\ upstream_cancels[t] < MaxCancels
                  /\ upstream_cancels' = [upstream_cancels EXCEPT ![t] = @ + 1]
             ELSE UNCHANGED upstream_cancels
  /\ UNCHANGED <<dispatch_event, loop_vars, backends, worker_jobs, ws_vars,
                 prompt_response>>
  /\ UNCHANGED <<health_vars, client_vars>>
  /\ UNCHANGED bridge_vars
  /\ UNCHANGED unit_vars

\* manage_queue with clear = true: cancel_task for every task listed as
\* pending, in queue order.
ManageQueueClear ==
  /\ pending # <<>>
  /\ pending' = <<>>
  /\ tasks' = [t \in TaskIds |->
                 IF t \in Range(pending)
                 THEN [tasks[t] EXCEPT !.status = "cancelled"]
                 ELSE tasks[t]]
  /\ completed' = completed \o SelectSeq(pending, LAMBDA t : t \notin Range(completed))
  /\ UNCHANGED <<dispatched, task_counter, dispatch_event, loop_vars, backends,
                 worker_jobs, ws_vars, upstream_cancels, prompt_response>>
  /\ UNCHANGED <<health_vars, client_vars>>
  /\ UNCHANGED bridge_vars
  /\ UNCHANGED unit_vars

\* ------------------------------------------------------------ DELETE /lb/tasks/{id}
\* cancel_task only (404 when it returns False): no upstream request.
CancelTaskEndpoint(t) ==
  /\ t \in 1..task_counter
  /\ cancel_task(t)
  /\ UNCHANGED <<dispatch_event, loop_vars, backends, worker_jobs, ws_vars,
                 upstream_cancels, prompt_response>>
  /\ UNCHANGED <<health_vars, client_vars>>
  /\ UNCHANGED bridge_vars
  /\ UNCHANGED unit_vars

\* ------------------------------------------------------------ worker, bridge
\* Worker b finishes the oldest job it holds and emits execution_success /
\* execution_error for its prompt_id on the socket the bridge LB_BRIDGE_b
\* reads.
WorkerFinish(b, outcome) ==
  /\ Held(b) # {}
  /\ LET t == CHOOSE t \in Held(b) :
                \A u \in Held(b) : worker_jobs[t].prompt_id[2] <= worker_jobs[u].prompt_id[2]
     IN /\ worker_jobs' = [worker_jobs EXCEPT ![t].state = outcome]
        /\ ws_frames' = [ws_frames EXCEPT ![b] =
              Append(@, [type |-> outcome, prompt_id |-> worker_jobs[t].prompt_id,
                         sid |-> NoClient, seq |-> NextSeq(b)])]
  /\ UNCHANGED <<queue_vars, dispatch_event, loop_vars, backends,
                 ws_handled, upstream_cancels, prompt_response>>
  /\ UNCHANGED <<health_vars, client_vars>>
  /\ UNCHANGED bridge_vars
  /\ UNCHANGED unit_vars

\* _connection_loop hands the next frame of worker b to _handle_message
\* (which needs the WebSocketManager's lock to route and to send).
\* A binary frame goes to broadcast_to_backend_users as it is.  A text
\* frame with a target other than the bridge itself is translated, sent to
\* that client if it is connected, and the client is associated with the
\* backend; any other text frame goes to broadcast_to_backend_users.  The
\* handler calls nothing of the TaskQueue (mark_completed has no caller in
\* the program).
BridgeHandleMessage(b) ==
  /\ ws_frames[b] # <<>>
  /\ bridges[b] = "open"
  /\ manager_lock_free
  /\ LET i == async_for_next(ws_frames[b])
         f == ws_frames[b][i]
         target == target_client_id(f)
     IN /\ ws_frames' = [ws_frames EXCEPT ![b] =
              SubSeq(@, 1, i - 1) \o SubSeq(@, i + 1, Len(@))]
        /\ ws_handled' = ws_handled \cup {<<b, f>>}
        /\ IF f.type = "binary"
           THEN /\ delivered' = [c \in ClientIds |->
                      IF c \in broadcast_targets(b, f)
                      THEN Append(delivered[c], Sent(raw(f), b, f))
                      ELSE delivered[c]]
                /\ UNCHANGED client_backends
           ELSE IF target # NoClient /\ target # bridge_id(b)
           THEN /\ delivered' = IF target \in clients
                                THEN [delivered EXCEPT ![target] =
                                        Append(@, Sent(translate(b, f), b, f))]
                                ELSE delivered
                /\ client_backends' = associate_client_with_backend(client_backends, target, b)
           ELSE /\ delivered' = [c \in ClientIds |->
                      IF c \in broadcast_targets(b, f)
                      THEN Append(delivered[c], Sent(tagged(b, f), b, f))
                      ELSE delivered[c]]
                /\ UNCHANGED client_backends
  /\ UNCHANGED <<queue_vars, dispatch_event, loop_vars, backends,
                 worker_jobs, upstream_cancels, prompt_response>>
  /\ UNCHANGED <<health_vars, clients, prompt_clients, prompt_lb_ids>>
  /\ UNCHANGED bridge_vars
  /\ UNCHANGED unit_vars

\* The frames sent to client c in the step.
sent_in_step(c) == SubSeq(delivered'[c], Len(delivered[c]) + 1, Len(delivered'[c]))

\* ------------------------------------------------------------ /ws, worker frames
\* websocket_endpoint: connect stores the socket under the client id, the
\* end of the connection removes it (_client_backends is kept).
ClientConnect(c) ==
  /\ c \notin clients
  /\ clients' = clients \cup {c}
  /\ UNCHANGED <<queue_vars, dispatch_event, loop_vars, backends, worker_jobs,
                 ws_vars, upstream_cancels, prompt_response, health_vars,
                 client_backends, prompt_clients, prompt_lb_ids, delivered>>
  /\ UNCHANGED bridge_vars
  /\ UNCHANGED unit_vars

ClientDisconnect(c) ==
  /\ c \in clients
  /\ clients' = clients \ {c}
  /\ UNCHANGED <<queue_vars, dispatch_event, loop_vars, backends, worker_jobs,
                 ws_vars, upstream_cancels, prompt_response, health_vars,
                 client_backends, prompt_clients, prompt_lb_ids, delivered>>
  /\ UNCHANGED bridge_vars
  /\ UNCHANGED unit_vars

\* Text frames a worker sends on the bridge's socket: a system type or
\* another one (an extension's), for one of the jobs it accepted, for a job
\* the balancer does not know, or for no job; data.sid is the bridge's id
\* (the clientId the bridge connected with) or absent.
FrameTypes == {"progress", "crystools.monitor"}
UnknownPromptId(b) == <<b, 0>>
FramePromptIds(b) ==
  {NoPrompt, UnknownPromptId(b)} \cup {worker_jobs[t].prompt_id : t \in AcceptedBy(b)}

WorkerEmit(b, ty, p, sid) ==
  /\ ws_frames[b] = <<>>
  /\ Cardinality(ws_handled) < MaxFrames
  /\ ws_frames' = [ws_frames EXCEPT ![b] =
        Append(@, [type |-> ty, prompt_id |-> p, sid |-> sid, seq |-> NextSeq(b)])]
  /\ UNCHANGED <<queue_vars, dispatch_event, loop_vars, backends, worker_jobs,
                 ws_handled, upstream_cancels, prompt_response, health_vars,
                 client_vars>>
  /\ UNCHANGED bridge_vars
  /\ UNCHANGED unit_vars

\* A binary frame (a preview image) of worker b: no prompt_id, no sid.
BinaryFrames(b) ==
  Cardinality({h \in ws_handled : h[1] = b /\ h[2].type = "binary"})
    + Len(SelectSeq(ws_frames[b], LAMBDA f : f.type = "binary"))

WorkerEmitBinary(b) ==
  /\ BinaryFrames(b) < MaxFrames
  /\ ws_frames' = [ws_frames EXCEPT ![b] =
        Append(@, [type |-> "binary", prompt_id |-> NoPrompt, sid |-> NoClient,
                   seq |-> NextSeq(b)])]
  /\ UNCHANGED <<queue_vars, dispatch_event, loop_vars, backends, worker_jobs,
                 ws_handled, upstream_cancels, prompt_response, health_vars,
                 client_vars>>
  /\ UNCHANGED bridge_vars
  /\ UNCHANGED unit_vars

\* ------------------------------------------------------------ check_backend_health
\* Mutant of probe_success: consecutive_failures is not reset.
probe_success_keeps_failures(st, qr, qp) ==
  [st EXCEPT !.queue_running = qr,
             !.queue_pending = qp,
             !.consecutive_successes = @ + 1,
             !.status = IF st.consecutive_successes + 1 >= healthy_threshold
                        THEN "healthy" ELSE @]

\* Mutant of probe_success: a queue_pending the dispatcher counted above
\* the probed value is kept.
probe_success_keeps_pending(st, qr, qp) ==
  [st EXCEPT !.queue_running = qr,
             !.queue_pending = IF st.queue_pending > qp THEN st.queue_pending ELSE qp,
             !.consecutive_successes = @ + 1,
             !.consecutive_failures = 0,
             !.status = IF st.consecutive_successes + 1 >= healthy_threshold
                        THEN "healthy" ELSE @]

\* The success branch (under the manager's lock): the queue lengths are
\* replaced by the answer's, consecutive_successes += 1,
\* consecutive_failures = 0, HEALTHY from healthy_threshold successes on.
probe_success(st, qr, qp) ==
  [st EXCEPT !.queue_running = qr,
             !.queue_pending = qp,
             !.consecutive_successes = @ + 1,
             !.consecutive_failures = 0,
             !.status = IF st.consecutive_successes + 1 >= healthy_threshold
                        THEN "healthy" ELSE @]

\* Mutant of probe_failure: UNHEALTHY only after more than
\* unhealthy_threshold failures.
probe_failure_late(st) ==
  [st EXCEPT !.consecutive_failures = @ + 1,
             !.consecutive_successes = 0,
             !.status = IF st.consecutive_failures + 1 > unhealthy_threshold
                        THEN "unhealthy" ELSE @]

\* The except branch: consecutive_failures += 1, consecutive_successes = 0,
\* UNHEALTHY from unhealthy_threshold failures on.
probe_failure(st) ==
  [st EXCEPT !.consecutive_failures = @ + 1,
             !.consecutive_successes = 0,
             !.status = IF st.consecutive_failures + 1 >= unhealthy_threshold
                        THEN "unhealthy" ELSE @]

\* The worker's GET /queue answer: one job runs, the others wait.
WorkerQueueRunning(b) == IF Held(b) # {} THEN 1 ELSE 0
WorkerQueuePending(b) == Cardinality(Held(b)) - WorkerQueueRunning(b)

\* The worker (or the network) answers the GET /queue of caller o's probe
\* of b: 200 with its queue at this instant, or an error / timeout.
ProbeAnswer(o, b, ok) ==
  /\ probes[o][b].stage = "sent"
  /\ probes' = [probes EXCEPT ![o][b].stage = "answered",
                              ![o][b].ok = ok,
                              ![o][b].queue_running = IF ok THEN WorkerQueueRunning(b) ELSE 0,
                              ![o][b].queue_pending = IF ok THEN WorkerQueuePending(b) ELSE 0]
  /\ UNCHANGED <<queue_vars, dispatch_event, loop_vars, backends, worker_jobs,
                 ws_vars, upstream_cancels, prompt_response, registry, cycles,
                 checks_started, fail_run, class_changes, broadcasts, client_vars>>
  /\ UNCHANGED bridge_vars
  /\ UNCHANGED unit_vars

\* check_backend_health resumes with the answer and applies it under the
\* lock.  add_backend's own check ends here; a cycle's probe waits for the
\* gather.
ProbeApply(o, b) ==
  /\ probes[o][b].stage = "answered"
  /\ LET p == probes[o][b]
         st == IF p.ok THEN probe_success(backends[b], p.queue_running, p.queue_pending)
               ELSE probe_failure(backends[b])
     IN IF p.orphan
        THEN UNCHANGED <<backends, fail_run, class_changes>>
        ELSE /\ backends' = [backends EXCEPT ![b] = st]
             /\ fail_run' = [fail_run EXCEPT ![b] = IF p.ok THEN 0 ELSE @ + 1]
             /\ class_changes' = IF st.status # backends[b].status
                                 THEN class_changes + 1 ELSE class_changes
  /\ probes' = [probes EXCEPT ![o][b] =
                  IF o = "direct" THEN NoProbe ELSE [NoProbe EXCEPT !.stage = "done"]]
  /\ UNCHANGED <<queue_vars, dispatch_event, loop_vars, worker_jobs, ws_vars,
                 upstream_cancels, prompt_response, registry, cycles,
                 checks_started, broadcasts, client_vars>>
  /\ UNCHANGED bridge_vars
  /\ UNCHANGED unit_vars

\* ------------------------------------------------------------ _do_check
\* A run of _do_check starts (c: the periodic loop or check_now): old_status
\* is recorded and check_all_backends sends one probe per registered
\* backend.
CycleStart(c) ==
  /\ cycles[c].state = "idle"
  /\ checks_started < MaxChecks
  /\ registry # <<>>
  /\ cycles' = [cycles EXCEPT ![c] =
        [state |-> "running",
         old_status |-> [b \in Backends |->
            IF b \in Range(registry) THEN backends[b].status ELSE "absent"]]]
  /\ probes' = [probes EXCEPT ![c] = [b \in Backends |->
        IF b \in Range(registry) THEN [NoProbe EXCEPT !.stage = "sent"] ELSE NoProbe]]
  /\ checks_started' = checks_started + 1
  /\ UNCHANGED <<queue_vars, dispatch_event, loop_vars, backends, worker_jobs,
                 ws_vars, upstream_cancels, prompt_response, registry,
                 fail_run, class_changes, broadcasts, client_vars>>
  /\ UNCHANGED bridge_vars
  /\ UNCHANGED unit_vars

\* for backend in get_all_backends(): old_status[name] != backend.status
any_status_changed(c) ==
  \E b \in Range(registry) :
    /\ cycles[c].old_status[b] # "absent"
    /\ cycles[c].old_status[b] # backends[b].status

\* The gather of run c has returned: the statuses are compared with
\* old_status; _on_status_change is None (set_status_change_callback is
\* never called), so no callback runs; one backend_update (and one
\* stats_update) is broadcast when any status differs.
CycleEnd(c) ==
  /\ cycles[c].state = "running"
  /\ \A b \in Backends : probes[c][b].stage \in {"none", "done"}
  /\ broadcasts' = IF any_status_changed(c) THEN broadcasts + 1 ELSE broadcasts
  /\ cycles' = [cycles EXCEPT ![c] = IdleCycle]
  /\ probes' = [probes EXCEPT ![c] = [b \in Backends |-> NoProbe]]
  /\ UNCHANGED <<queue_vars, dispatch_event, loop_vars, backends, worker_jobs,
                 ws_vars, upstream_cancels, prompt_response, registry,
                 checks_started, fail_run, class_changes, client_vars>>
  /\ UNCHANGED bridge_vars
  /\ UNCHANGED unit_vars

\* ------------------------------------------------------------ /lb/backends
\* POST /lb/backends for a name that is not registered: register_backend,
\* the bridge is started, and check_backend_health is called directly (its
\* probe is sent here and ends in ProbeApply).
AddBackend(b) ==
  /\ b \notin Range(registry)
  /\ b \notin add_waiting
  /\ manager_lock_free
  /\ checks_started < MaxChecks
  /\ probes["direct"][b].stage = "none"
  /\ registry' = Append(registry, b)
  /\ backends' = [backends EXCEPT ![b] = NewBackend]
  /\ fail_run' = [fail_run EXCEPT ![b] = 0]
  /\ probes' = [probes EXCEPT !["direct"][b] = [NoProbe EXCEPT !.stage = "sent"]]
  /\ checks_started' = checks_started + 1
  /\ bridges' = add_bridge(b)
  /\ UNCHANGED <<queue_vars, dispatch_event, loop_vars, worker_jobs, ws_vars,
                 upstream_cancels, prompt_response, cycles, class_changes,
                 broadcasts, client_vars, stopping, ws_lock, add_waiting>>
  /\ UNCHANGED unit_vars

\* POST /lb/backends while a remove_backend holds the WebSocketManager's
\* lock: register_backend stores a new BackendState under the name (probes
\* in flight keep the old object), then the handler waits for the lock.
AddBackendDuringRemoval(b) ==
  /\ ws_lock # NoBackend
  /\ b \notin add_waiting
  /\ checks_started < MaxChecks
  /\ probes["direct"][b].stage = "none"
  /\ registry' = DictSet(registry, b)
  /\ backends' = [backends EXCEPT ![b] = NewBackend]
  /\ fail_run' = [fail_run EXCEPT ![b] = 0]
  /\ probes' = [o \in ProbeOwners |->
        [probes[o] EXCEPT ![b].orphan = (probes[o][b].stage \in {"sent", "answered"})]]
  /\ checks_started' = checks_started + 1
  /\ add_waiting' = add_waiting \cup {b}
  /\ UNCHANGED <<queue_vars, dispatch_event, loop_vars, worker_jobs, ws_vars,
                 upstream_cancels, prompt_response, cycles, class_changes,
                 broadcasts, client_vars, bridges, stopping, ws_lock>>
  /\ UNCHANGED unit_vars

\* That handler gets the lock: the bridge is started unless the name has
\* one, then check_backend_health sends its probe, or returns at once when
\* the name is no longer registered.
AddBackendResume(b) ==
  /\ b \in add_waiting
  /\ manager_lock_free
  /\ add_waiting' = add_waiting \ {b}
  /\ bridges' = add_bridge(b)
  /\ probes' = IF b \in Range(registry)
               THEN [probes EXCEPT !["direct"][b] = [NoProbe EXCEPT !.stage = "sent"]]
               ELSE probes
  /\ UNCHANGED <<queue_vars, dispatch_event, loop_vars, backends, worker_jobs,
                 ws_vars, upstream_cancels, prompt_response, registry, cycles,
                 checks_started, fail_run, class_changes, broadcasts,
                 client_vars, stopping, ws_lock>>
  /\ UNCHANGED unit_vars

\* DELETE /lb/backends/{name} in one step (nothing else runs while the
\* bridge stops): the bridge is popped and stopped (its unread frames are
\* dropped) and the backend is unregistered; probes of it still in flight
\* keep the object they started with.
RemoveBackend(b) ==
  /\ b \in Range(registry)
  /\ manager_lock_free
  /\ registry' = DictPop(registry, b)
  /\ probes' = [o \in ProbeOwners |->
        [probes[o] EXCEPT ![b].orphan = (probes[o][b].stage \in {"sent", "answered"})]]
  /\ ws_frames' = [ws_frames EXCEPT ![b] = <<>>]
  /\ bridges' = [bridges EXCEPT ![b] = "none"]
  /\ UNCHANGED <<queue_vars, dispatch_event, loop_vars, backends, worker_jobs,
                 ws_handled, upstream_cancels, prompt_response, cycles,
                 checks_started, fail_run, class_changes, broadcasts,
                 client_vars, stopping, ws_lock, add_waiting>>
  /\ UNCHANGED unit_vars

\* DELETE /lb/backends/{name} in two steps.  RemoveBackendBegin:
\* WebSocketManager.remove_backend takes the lock, pops the bridge, and
\* waits inside the lock for bridge.stop(), which cancels the reader task
\* and closes its connection.
RemoveBackendBegin(b) ==
  /\ b \in Range(registry)
  /\ manager_lock_free
  /\ bridges[b] # "none"
  /\ bridges' = [bridges EXCEPT ![b] = "none"]
  /\ stopping' = [stopping EXCEPT ![b] = bridges[b]]
  /\ ws_lock' = b
  /\ UNCHANGED <<queue_vars, dispatch_event, loop_vars, backends, worker_jobs,
                 ws_vars, upstream_cancels, prompt_response, health_vars,
                 client_vars, add_waiting>>
  /\ UNCHANGED unit_vars

\* RemoveBackendEnd: stop() has returned (the task has ended, the
\* connection is closed), the lock is released and unregister_backend
\* deletes the name from the registry.
RemoveBackendEnd(b) ==
  /\ ws_lock = b
  /\ stopping' = [stopping EXCEPT ![b] = "none"]
  /\ ws_lock' = NoBackend
  /\ registry' = DictPop(registry, b)
  /\ probes' = [o \in ProbeOwners |->
        [probes[o] EXCEPT ![b].orphan = (probes[o][b].stage \in {"sent", "answered"})]]
  /\ ws_frames' = [ws_frames EXCEPT ![b] = <<>>]
  /\ UNCHANGED <<queue_vars, dispatch_event, loop_vars, backends, worker_jobs,
                 ws_handled, upstream_cancels, prompt_response, cycles,
                 checks_started, fail_run, class_changes, broadcasts,
                 client_vars, bridges, add_waiting>>
  /\ UNCHANGED unit_vars

\* ------------------------------------------------------------ _connection_loop
\* websockets.connect succeeds: the bridge's connection is open.
BridgeConnect(b) ==
  /\ bridges[b] = "connecting"
  /\ bridges' = [bridges EXCEPT ![b] = "open"]
  /\ UNCHANGED <<queue_vars, dispatch_event, loop_vars, backends, worker_jobs,
                 ws_vars, upstream_cancels, prompt_response, health_vars,
                 client_vars, stopping, ws_lock, add_waiting>>
  /\ UNCHANGED unit_vars

\* The connect is refused, or the open connection ends (after the frames
\* sent on it were read): the connection is left and closed, the loop
\* sleeps before it connects again.
BridgeConnectionLost(b) ==
  /\ bridges[b] \in {"connecting", "open"}
  /\ ws_frames[b] = <<>>
  /\ bridges' = [bridges EXCEPT ![b] = "sleeping"]
  /\ UNCHANGED <<queue_vars, dispatch_event, loop_vars, backends, worker_jobs,
                 ws_vars, upstream_cancels, prompt_response, health_vars,
                 client_vars, stopping, ws_lock, add_waiting>>
  /\ UNCHANGED unit_vars

\* The reconnect delay is over.
BridgeRetry(b) ==
  /\ bridges[b] = "sleeping"
  /\ bridges' = [bridges EXCEPT ![b] = "connecting"]
  /\ UNCHANGED <<queue_vars, dispatch_event, loop_vars, backends, worker_jobs,
                 ws_vars, upstream_cancels, prompt_response, health_vars,
                 client_vars, stopping, ws_lock, add_waiting>>
  /\ UNCHANGED unit_vars

\* POST /lb/backends/{name}/enable, /disable.
EnableBackend(b) ==
  /\ b \in Range(registry)
  /\ ~backends[b].enabled
  /\ backends' = [backends EXCEPT ![b].enabled = TRUE]
  /\ UNCHANGED <<queue_vars, dispatch_event, loop_vars, worker_jobs, ws_vars,
                 upstream_cancels, prompt_response, health_vars, client_vars>>
  /\ UNCHANGED bridge_vars
  /\ UNCHANGED unit_vars

DisableBackend(b) ==
  /\ b \in Range(registry)
  /\ backends[b].enabled
  /\ backends' = [backends EXCEPT ![b].enabled = FALSE]
  /\ UNCHANGED <<queue_vars, dispatch_event, loop_vars, worker_jobs, ws_vars,
                 upstream_cancels, prompt_response, health_vars, client_vars>>
  /\ UNCHANGED bridge_vars
  /\ UNCHANGED unit_vars

\* ------------------------------------------------------------ dispatch_task, in two steps
\* Where the backends can change while dispatch_task waits for the
\* WebSocketManager's lock (main.py:52), the selection and the submit are
\* two steps.  DispatchSelect: get_pending_task, select_backend and the
\* read of the bridge id.
DispatchSelect ==
  /\ pc = "peek"
  /\ IF get_pending_task = NoTask \/ select_backend = NoBackend
     THEN /\ pc' = "wait"
          /\ UNCHANGED <<cur, sel, submit_sid>>
     ELSE /\ cur' = get_pending_task
          /\ sel' = select_backend
          /\ submit_sid' = submit_client_id(select_backend, get_pending_task)
          /\ pc' = "selected"
  /\ UNCHANGED <<queue_vars, dispatch_event, backends, worker_jobs,
                 ws_vars, upstream_cancels, prompt_response, health_vars,
                 client_vars>>
  /\ UNCHANGED bridge_vars
  /\ UNCHANGED unit_vars

\* Mutant of submit_prompt_allowed: no check before the POST.
submit_prompt_unchecked(b) == TRUE

\* BackendManager.submit_prompt raises unless the backend is registered and
\* is_available.
submit_prompt_allowed(b) == b \in Range(registry) /\ is_available(b)

\* DispatchIssue: the client is associated, then submit_prompt either sends
\* POST /prompt or raises, in which case dispatch_task calls mark_failed
\* and returns True.
DispatchIssue ==
  /\ pc = "selected"
  /\ tasks[cur].client_id # NoClient => manager_lock_free
  /\ client_backends' =
        IF tasks[cur].client_id # NoClient
        THEN associate_client_with_backend(client_backends, tasks[cur].client_id, sel)
        ELSE client_backends
  /\ IF submit_prompt_allowed(sel)
     THEN /\ pc' = "submit"
          /\ UNCHANGED queue_vars
     ELSE /\ mark_failed(cur)
          /\ pc' = "pop"
  /\ UNCHANGED <<dispatch_event, cur, sel, submit_sid, backends, worker_jobs, ws_vars,
                 upstream_cancels, prompt_response, health_vars, clients,
                 prompt_clients, prompt_lb_ids, delivered>>
  /\ UNCHANGED bridge_vars
  /\ UNCHANGED unit_vars

\* ------------------------------------------------------------ specifications
\* Spec: the queue, the dispatch loop and the cancel endpoints between two
\* probe cycles.
Next ==
  \/ AddTask(NoClient, NoExtra)
  \/ AddTaskFull
  \/ LoopWait
  \/ LoopGetPending
  \/ SubmitOk
  \/ SubmitFail
  \/ LoopPop
  \/ \E t \in TaskIds : ManageQueueDelete(t)
  \/ ManageQueueClear
  \/ \E t \in TaskIds : CancelTaskEndpoint(t)

Spec == Init /\ [][Next]_vars

\* WorkerSpec: submissions, the dispatch loop, the workers finishing their
\* jobs and the bridges reading the frames.  The dispatch loop and each
\* bridge reader are long-lived tasks of the event loop; an upstream submit
\* ends with a response or, at the latest, with the client's timeout; a
\* worker that holds a job finishes it.
DispatchLoop == LoopWait \/ LoopGetPending \/ LoopPop
Upstream == SubmitOk \/ SubmitFail
Workers == \E b \in Backends, o \in {"execution_success", "execution_error"} : WorkerFinish(b, o)
Bridge == \E b \in Backends : BridgeHandleMessage(b)

WorkerNext ==
  \/ AddTask(NoClient, NoExtra)
  \/ LoopWait
  \/ LoopGetPending
  \/ SubmitOk
  \/ SubmitFail
  \/ LoopPop
  \/ \E b \in Backends, o \in {"execution_success", "execution_error"} : WorkerFinish(b, o)
  \/ \E b \in Backends : BridgeHandleMessage(b)

WorkerSpec ==
  /\ Init
  /\ [][WorkerNext]_vars
  /\ WF_vars(DispatchLoop)
  /\ WF_vars(Upstream)
  /\ WF_vars(Workers)
  /\ WF_vars(Bridge)

\* AvailabilitySpec: the dispatch loop, with the selection and the submit
\* as two steps, while backends are disabled, enabled and unregistered and
\* the periodic check finds workers unreachable.
AvailabilityNext ==
  \/ AddTask(NoClient, NoExtra)
  \/ LoopWait
  \/ DispatchSelect
  \/ DispatchIssue
  \/ SubmitOk
  \/ SubmitFail
  \/ LoopPop
  \/ CycleStart("periodic")
  \/ \E b \in Backends : ProbeAnswer("periodic", b, FALSE)
  \/ \E b \in Backends : ProbeApply("periodic", b)
  \/ CycleEnd("periodic")
  \/ \E b \in Backends : EnableBackend(b)
  \/ \E b \in Backends : DisableBackend(b)
  \/ \E b \in Backends : RemoveBackend(b)

AvailabilitySpec == Init /\ [][AvailabilityNext]_vars

\* ProbeRaceSpec: the dispatch loop and the periodic check against workers
\* that accept every job, answer every probe with their queue and finish
\* their jobs.
ProbeRaceNext ==
  \/ AddTask(NoClient, NoExtra)
  \/ LoopWait
  \/ LoopGetPending
  \/ SubmitOk
  \/ LoopPop
  \/ CycleStart("periodic")
  \/ \E b \in Backends : ProbeAnswer("periodic", b, TRUE)
  \/ \E b \in Backends : ProbeApply("periodic", b)
  \/ CycleEnd("periodic")
  \/ \E b \in Backends : WorkerFinish(b, "execution_success")

ProbeRaceSpec == Init /\ [][ProbeRaceNext]_vars

\* LoadSpec: the dispatch loop with submits that succeed or fail, and the
\* periodic check, against workers that answer every probe with their
\* queue and finish their jobs.
LoadNext ==
  \/ AddTask(NoClient, NoExtra)
  \/ LoopWait
  \/ LoopGetPending
  \/ SubmitOk
  \/ SubmitFail
  \/ LoopPop
  \/ CycleStart("periodic")
  \/ \E b \in Backends : ProbeAnswer("periodic", b, TRUE)
  \/ \E b \in Backends : ProbeApply("periodic", b)
  \/ CycleEnd("periodic")
  \/ \E b \in Backends : WorkerFinish(b, "execution_success")

LoadSpec == Init /\ [][LoadNext]_vars

\* NumberSpec: submissions with every kind of extra_data, accepted or
\* rejected, while the dispatch loop drains the queue.
NumberNext ==
  \/ \E x \in ExtraDataBodies : AddTask(NoClient, x)
  \/ AddTaskFull
  \/ LoopWait
  \/ LoopGetPending
  \/ SubmitOk
  \/ LoopPop

NumberSpec == Init /\ [][NumberNext]_vars

\* HealthSpec: the health checks alone: the periodic run and check_now
\* (which may overlap) and the check POST /lb/backends makes for the
\* backend it adds.
HealthNext ==
  \/ \E c \in CycleOwners : CycleStart(c)
  \/ \E o \in ProbeOwners, b \in Backends, ok \in BOOLEAN : ProbeAnswer(o, b, ok)
  \/ \E o \in ProbeOwners, b \in Backends : ProbeApply(o, b)
  \/ \E c \in CycleOwners : CycleEnd(c)
  \/ \E b \in Backends : AddBackend(b)

HealthSpec == HealthInit /\ [][HealthNext]_vars

\* TickSpec: submissions and the dispatch loop while backends are disabled
\* and enabled (which sets no event).  The loop's wait ends with the event
\* or with the retry_interval timeout, an upstream submit ends with a
\* response or with the client's timeout.
TickNext ==
  \/ AddTask(NoClient, NoExtra)
  \/ LoopWait
  \/ LoopGetPending
  \/ SubmitOk
  \/ SubmitFail
  \/ LoopPop
  \/ \E b \in Backends : EnableBackend(b)
  \/ \E b \in Backends : DisableBackend(b)

TickSpec ==
  /\ Init
  /\ [][TickNext]_vars
  /\ WF_vars(DispatchLoop)
  /\ WF_vars(Upstream)

\* WakeSpec: the dispatch loop with a retry_interval that never runs out:
\* its wait ends with the event only.  Jobs are submitted at any point of
\* the loop; backends are disabled and enabled, so that a drain may end
\* without a backend.
WakeLoop == LoopWake \/ LoopGetPending \/ LoopPop

WakeNext ==
  \/ AddTask(NoClient, NoExtra)
  \/ LoopWake
  \/ LoopGetPending
  \/ SubmitOk
  \/ SubmitFail
  \/ LoopPop
  \/ \E b \in Backends : EnableBackend(b)
  \/ \E b \in Backends : DisableBackend(b)

WakeSpec ==
  /\ Init
  /\ [][WakeNext]_vars
  /\ WF_vars(WakeLoop)
  /\ WF_vars(Upstream)

\* BridgeSpec: clients connect and disconnect, client c1 submits jobs under
\* its id; the jobs are dispatched; the workers emit text frames, which the
\* bridges route.
BridgeNext ==
  \/ AddTask("c1", NoExtra)
  \/ LoopWait
  \/ LoopGetPending
  \/ SubmitOk
  \/ LoopPop
  \/ \E c \in ClientIds : ClientConnect(c)
  \/ \E c \in ClientIds : ClientDisconnect(c)
  \/ \E b \in Backends, ty \in FrameTypes :
        \E p \in FramePromptIds(b), sid \in {NoClient, bridge_id(b)} :
           WorkerEmit(b, ty, p, sid)
  \/ \E b \in Backends : BridgeHandleMessage(b)

BridgeSpec == Init /\ [][BridgeNext]_vars

\* RelaySpec: client c1 submits jobs under its id, the dispatch succeeds or
\* fails; clients connect; the workers finish their jobs and send preview
\* images; the bridges read the frames and send them on.
RelayNext ==
  \/ AddTask("c1", NoExtra)
  \/ LoopWait
  \/ LoopGetPending
  \/ SubmitOk
  \/ SubmitFail
  \/ LoopPop
  \/ \E c \in ClientIds : ClientConnect(c)
  \/ \E b \in Backends : WorkerFinish(b, "execution_success")
  \/ \E b \in Backends : WorkerEmitBinary(b)
  \/ \E b \in Backends : BridgeHandleMessage(b)

RelaySpec == Init /\ [][RelayNext]_vars

\* EarlyFrameSpec: client c1 submits jobs under its id; a worker accepts a
\* job, and the response of the submit is handled in a later step; clients
\* connect; the workers emit progress frames about the jobs they accepted,
\* which the bridges route.
EarlyFrameNext ==
  \/ AddTask("c1", NoExtra)
  \/ LoopWait
  \/ LoopGetPending
  \/ WorkerAccept
  \/ SubmitRecord
  \/ LoopPop
  \/ \E c \in ClientIds : ClientConnect(c)
  \/ \E b \in Backends :
        \E p \in FramePromptIds(b) \ {NoPrompt, UnknownPromptId(b)} :
           \E sid \in {NoClient, bridge_id(b)} : WorkerEmit(b, "progress", p, sid)
  \/ \E b \in Backends : BridgeHandleMessage(b)

EarlyFrameSpec == Init /\ [][EarlyFrameNext]_vars

\* The states a registered backend of the scheduler run can have.
SchedulerBackend(name) ==
  {[name |-> name, status |-> st, enabled |-> TRUE, queue_pending |-> q,
    queue_running |-> 0, weight |-> w, max_queue |-> wide_max_queue] :
     st \in {"healthy", "unhealthy"}, q \in LoadValues, w \in WeightValues}

\* A scheduler of any strategy over up to three registered backends in
\* any of their states; nothing else runs.
SchedulerInit ==
  /\ InitComponents(BackendOrder, {})
  /\ \A b \in Backends : backends[b] = ProbedOk
  /\ \E n \in 0..Len(SchedulerNames) :
       \E strategy \in {"least_busy", "round_robin", "weighted"} :
         \E prefer_idle \in BOOLEAN :
           \E bs \in [1..n -> UNION {SchedulerBackend(SchedulerNames[i]) : i \in 1..n}] :
             /\ \A i \in 1..n : bs[i].name = SchedulerNames[i]
             /\ sched = NewScheduler(bs, strategy, prefer_idle)

\* Scheduler.select_backend is called: the strategy is called with the
\* candidates unless there are none, RoundRobinStrategy moves its cursor.
SchedulerSelect ==
  /\ Len(sched.picks) < MaxPicks
  /\ sched' = [sched EXCEPT
        !.picks = Append(@, [name |-> scheduler_select(sched).name,
                             index |-> sched.index]),
        !.index = IF candidates(sched) # <<>> /\ sched.strategy = "round_robin"
                  THEN RoundRobinStrategy_next(candidates(sched), @)
                  ELSE @]
  /\ UNCHANGED <<queue_vars, dispatch_event, loop_vars, backends, worker_jobs,
                 ws_vars, upstream_cancels, prompt_response, health_vars,
                 client_vars, bridge_vars, downstream_vars>>

\* A probe result or a dispatch changes the status or the load of one
\* backend.
SchedulerBackendChange(i) ==
  /\ i \in 1..Len(sched.backends)
  /\ \E st \in SchedulerBackend(sched.backends[i].name) :
       /\ st # sched.backends[i]
       /\ st.weight = sched.backends[i].weight
       /\ \/ st.status = sched.backends[i].status
          \/ st.queue_pending = sched.backends[i].queue_pending
       /\ sched' = [sched EXCEPT !.backends[i] = st, !.picks = <<>>]
  /\ UNCHANGED <<queue_vars, dispatch_event, loop_vars, backends, worker_jobs,
                 ws_vars, upstream_cancels, prompt_response, health_vars,
                 client_vars, bridge_vars, downstream_vars>>

SchedulerNext ==
  \/ SchedulerSelect
  \/ \E i \in 1..Len(SchedulerNames) : SchedulerBackendChange(i)

SchedulerSpec == SchedulerInit /\ [][SchedulerNext]_vars

\* BridgeLifeSpec: backends are added and removed through the API, a
\* removal either in one step or with the wait for bridge.stop() in which
\* other handlers run; the bridges' loops connect, lose their connection
\* and retry; the probes of the added backends are answered.
BridgeLifeNext ==
  \/ \E b \in Backends : AddBackend(b)
  \/ \E b \in Backends : AddBackendDuringRemoval(b)
  \/ \E b \in Backends : AddBackendResume(b)
  \/ \E b \in Backends : RemoveBackend(b)
  \/ \E b \in Backends : RemoveBackendBegin(b)
  \/ \E b \in Backends : RemoveBackendEnd(b)
  \/ \E b \in Backends : BridgeConnect(b)
  \/ \E b \in Backends : BridgeConnectionLost(b)
  \/ \E b \in Backends : BridgeRetry(b)
  \/ \E b \in Backends, ok \in BOOLEAN : ProbeAnswer("direct", b, ok)
  \/ \E b \in Backends : ProbeApply("direct", b)

BridgeLifeSpec == HealthInit /\ [][BridgeLifeNext]_vars

\* websocket_endpoint up to its loop: connect accepts the socket and stores
\* it under the client id, whatever is stored there.
EndpointConnect(s, c) ==
  /\ sockets[s].stage = "new"
  /\ sockets' = [sockets EXCEPT ![s] =
        [client_id |-> c, stage |-> "open",
         seq |-> Cardinality({x \in SocketIds : sockets[x].stage # "new"}) + 1]]
  /\ client_sockets' = [client_sockets EXCEPT ![c] = s]
  /\ clients' = clients \cup {c}
  /\ UNCHANGED <<queue_vars, dispatch_event, loop_vars, backends, worker_jobs,
                 ws_vars, upstream_cancels, prompt_response, health_vars,
                 client_backends, prompt_clients, prompt_lb_ids, delivered,
                 bridge_vars, sched, bcast, last_send>>

\* receive_text raises WebSocketDisconnect: the endpoint leaves its loop and
\* disconnect(client_id) deletes the entry of the client id.
EndpointDisconnect(s) ==
  /\ sockets[s].stage = "open"
  /\ sockets' = [sockets EXCEPT ![s].stage = "closed"]
  /\ client_sockets' = [client_sockets EXCEPT ![sockets[s].client_id] = NoSocket]
  /\ clients' = clients \ {sockets[s].client_id}
  /\ UNCHANGED <<queue_vars, dispatch_event, loop_vars, backends, worker_jobs,
                 ws_vars, upstream_cancels, prompt_response, health_vars,
                 client_backends, prompt_clients, prompt_lb_ids, delivered,
                 bridge_vars, sched, bcast, last_send>>

\* send_to_client: the socket stored under the client id, if any, is
\* written to; the write raises on a closed socket and the exception is
\* logged.
SendToClient(c) ==
  /\ last_send' =
        [client_id |-> c,
         socket |-> IF client_sockets[c] # NoSocket
                       /\ sockets[client_sockets[c]].stage = "open"
                    THEN client_sockets[c] ELSE NoSocket]
  /\ UNCHANGED <<queue_vars, dispatch_event, loop_vars, backends, worker_jobs,
                 ws_vars, upstream_cancels, prompt_response, health_vars,
                 client_vars, bridge_vars, sched, bcast, sockets, client_sockets>>

\* SocketSpec: downstream sockets connect under client ids and disconnect;
\* frames are sent to client ids.
SocketNext ==
  \/ \E s \in SocketIds, c \in ClientIds : EndpointConnect(s, c)
  \/ \E s \in SocketIds : EndpointDisconnect(s)
  \/ \E c \in ClientIds : SendToClient(c)

SocketSpec == Init /\ [][SocketNext]_vars

\* The open socket that connected last under client id c, NoSocket when no
\* socket is open under it.
latest_open(c) ==
  LET open == {s \in SocketIds : sockets[s].stage = "open" /\ sockets[s].client_id = c}
  IN IF open = {} THEN NoSocket
     ELSE CHOOSE s \in open : \A x \in open : sockets[x].seq <= sockets[s].seq

\* list(self._clients.items()): the connected clients in the order in which
\* the dict holds them (any order: the set does not keep it).
orders_of(S) == {o \in [1..Cardinality(S) -> S] : Range(o) = S}

\* The backend_update message HealthChecker passes to broadcast.
BackendUpdate ==
  [type |-> "backend_update", prompt_id |-> NoPrompt, sid |-> NoClient,
   backend |-> NoBackend]

\* broadcast, up to its loop: the snapshot of _clients is taken under the
\* lock.
BroadcastStart(order) ==
  /\ bcast.stage # "sending"
  /\ bcast.calls < MaxBroadcasts
  /\ manager_lock_free
  /\ order \in orders_of(clients)
  /\ bcast' = [stage |-> IF order = <<>> THEN "done" ELSE "sending",
               snapshot |-> order, pos |-> 1, log |-> <<>>,
               calls |-> bcast.calls + 1]
  /\ UNCHANGED <<queue_vars, dispatch_event, loop_vars, backends, worker_jobs,
                 ws_vars, upstream_cancels, prompt_response, health_vars,
                 client_vars, bridge_vars, sched, sockets, client_sockets,
                 last_send>>

\* The loop of broadcast when an exception of a send is not caught: the
\* call ends at the first send that fails.
BroadcastSendUncaught(ok) ==
  /\ bcast.stage = "sending"
  /\ LET c == bcast.snapshot[bcast.pos]
     IN /\ ok => c \in clients
        /\ delivered' = IF ok THEN [delivered EXCEPT ![c] = Append(@, BackendUpdate)]
                        ELSE delivered
        /\ bcast' = [bcast EXCEPT
               !.log = Append(@, [client |-> c, ok |-> ok]),
               !.pos = @ + 1,
               !.stage = IF ~ok \/ bcast.pos = Len(bcast.snapshot)
                         THEN "done" ELSE "sending"]
  /\ UNCHANGED <<queue_vars, dispatch_event, loop_vars, backends, worker_jobs,
                 ws_vars, upstream_cancels, prompt_response, health_vars,
                 clients, client_backends, prompt_clients, prompt_lb_ids,
                 bridge_vars, sched, sockets, client_sockets, last_send>>

\* One pass of the loop of broadcast: the send to the next client of the
\* snapshot succeeds or raises (it raises on a socket that was closed
\* since); the exception is logged and the loop goes on.
BroadcastSend(ok) ==
  /\ bcast.stage = "sending"
  /\ LET c == bcast.snapshot[bcast.pos]
     IN /\ ok => c \in clients
        /\ delivered' = IF ok THEN [delivered EXCEPT ![c] = Append(@, BackendUpdate)]
                        ELSE delivered
        /\ bcast' = [bcast EXCEPT
               !.log = Append(@, [client |-> c, ok |-> ok]),
               !.pos = @ + 1,
               !.stage = IF bcast.pos = Len(bcast.snapshot)
                         THEN "done" ELSE "sending"]
  /\ UNCHANGED <<queue_vars, dispatch_event, loop_vars, backends, worker_jobs,
                 ws_vars, upstream_cancels, prompt_response, health_vars,
                 clients, client_backends, prompt_clients, prompt_lb_ids,
                 bridge_vars, sched, sockets, client_sockets, last_send>>

\* BroadcastSpec: clients come and go while broadcast calls run.
BroadcastNext ==
  \/ \E c \in ClientIds : ClientConnect(c)
  \/ \E c \in ClientIds : ClientDisconnect(c)
  \/ \E order \in UNION {orders_of(S) : S \in SUBSET ClientIds} : BroadcastStart(order)
  \/ \E ok \in BOOLEAN : BroadcastSend(ok)

BroadcastSpec == Init /\ [][BroadcastNext]_vars

\* The worker sends a progress frame about no job on the connection the
\* bridge has open.
WorkerSend(b) ==
  /\ bridges[b] = "open"
  /\ WorkerEmit(b, "progress", NoPrompt, NoClient)

\* ReconnectSpec: BridgeLifeSpec with a client, frames of the workers and
\* their forwarding; a bridge that sleeps after a lost or refused
\* connection goes on when its delay is over.
ReconnectNext ==
  \/ BridgeLifeNext
  \/ ClientConnect("c1")
  \/ \E b \in Backends : WorkerSend(b)
  \/ \E b \in Backends : BridgeHandleMessage(b)

ReconnectSpec ==
  /\ HealthInit
  /\ [][ReconnectNext]_vars
  /\ \A b \in Backends : WF_vars(BridgeRetry(b))

\* Both backends are configured, any of them with enabled: false.
SessionInit == \E off \in SUBSET Backends : InitConfigured(BackendOrder, off)

\* SessionSpec: jobs without a client id are submitted and dispatched while
\* backends are enabled, disabled, removed (with the wait for bridge.stop())
\* and added again, and the probes of the added backends are answered.
SessionNext ==
  \/ AddTask(NoClient, NoExtra)
  \/ LoopWait
  \/ LoopGetPending
  \/ SubmitOk
  \/ LoopPop
  \/ \E b \in Backends : EnableBackend(b)
  \/ \E b \in Backends : DisableBackend(b)
  \/ \E b \in Backends : RemoveBackendBegin(b)
  \/ \E b \in Backends : RemoveBackendEnd(b)
  \/ \E b \in Backends : AddBackend(b)
  \/ \E b \in Backends : ProbeAnswer("direct", b, TRUE)
  \/ \E b \in Backends : ProbeApply("direct", b)

SessionSpec == SessionInit /\ [][SessionNext]_vars

\* ------------------------------------------------------------ claims
Terminal == {"completed", "failed", "cancelled"}
Created == 1..task_counter
Binding(t) == <<tasks[t].backend_name, tasks[t].prompt_id>>
Unbound == <<NoBackend, NoPrompt>>

\* C1: the task the dispatch loop hands to the callback is the oldest task
\* in the pending index (the head, and no pending task has a smaller
\* submission number); while its submit is in flight no task enqueued
\* before it is pending.
C1_DispatchOldestFirst ==
  [][ /\ (pc = "peek" /\ pc' = "submit") =>
           /\ cur' = Head(pending)
           /\ \A u \in Range(pending) : cur' <= u
      /\ pc' = "submit" => \A u \in Range(pending') : cur' <= u ]_vars

\* Witness of C1: a submit in flight for the head of a pending index that
\* holds a later task as well, after an earlier task was handled.
C1_Witness ==
  /\ pc = "submit"
  /\ Len(pending) >= 2
  /\ cur = Head(pending)
  /\ \E t \in Created : t < cur /\ tasks[t].retries >= 1

\* C2 (as claimed): when the attempt of a task failed with retries left, the
\* task is, once the loop has finished handling it, in the pending index,
\* QUEUED and unbound; the loop removes a task from pending only after it
\* was marked DISPATCHED.
C2_FailedAttemptStaysPending ==
  [][ (pc = "pop" /\ pc' = "peek") =>
        /\ (tasks[cur].status = "queued" /\ tasks[cur].retries < max_retries) =>
              /\ cur \in Range(pending')
              /\ tasks'[cur].status = "queued"
              /\ <<tasks'[cur].backend_name, tasks'[cur].prompt_id>> = Unbound
        /\ (cur \in Range(pending) /\ cur \notin Range(pending')) =>
              tasks[cur].status = "dispatched" ]_vars

\* C3 (as claimed): a task whose attempts failed fewer than max_retries
\* times and that is still QUEUED waits in the pending index for its next
\* attempt; FAILED is reached only with retries = max_retries, and no task
\* is attempted more than max_retries times.
C3_RetriesUpToCeiling ==
  \A t \in Created :
    /\ (tasks[t].status = "queued" /\ tasks[t].retries \in 1..(max_retries - 1))
          => t \in Range(pending)
    /\ tasks[t].status = "failed" => tasks[t].retries = max_retries
    /\ tasks[t].retries <= max_retries

\* C4 (as claimed): once a task is COMPLETED, FAILED or CANCELLED, no step
\* changes its status or puts it into the pending or the dispatched index.
C4_TerminalIsFinal ==
  [][ \A t \in Created :
        tasks[t].status \in Terminal =>
          /\ tasks'[t].status = tasks[t].status
          /\ t \in Range(pending') => t \in Range(pending)
          /\ t \in dispatched' => t \in dispatched ]_vars

\* C5 (as claimed): a task cancelled while in the dispatched index, through
\* either endpoint and however often, has had exactly one cancel request
\* sent to its worker.
C5_OneUpstreamCancel ==
  \A t \in dispatched :
    tasks[t].status = "cancelled" => upstream_cancels[t] = 1

C7_IndexesDisjoint ==
  /\ Range(pending) \cap dispatched = {}
  /\ Range(pending) \cap Range(completed) = {}
  /\ dispatched \cap Range(completed) = {}

\* C8 (as claimed): pending tasks are QUEUED, dispatched tasks are
\* DISPATCHED or RUNNING, tasks of the completed index are COMPLETED,
\* FAILED or CANCELLED.  Stated for the states a request handler such as
\* GET /queue can run in: the dispatch loop is not between the callback's
\* mark_dispatched / mark_failed and its own pop.
C8_IndexMatchesStatus ==
  pc # "pop" =>
    /\ \A t \in Range(pending) : tasks[t].status = "queued"
    /\ \A t \in dispatched : tasks[t].status \in {"dispatched", "running"}
    /\ \A t \in Range(completed) : tasks[t].status \in Terminal

\* C9 (as claimed): a dispatched task whose worker emitted
\* execution_success (execution_error) eventually is COMPLETED (FAILED) and
\* in the completed index.
C9_FinishedJobReachesTerminal ==
  \A t \in TaskIds :
    /\ (worker_jobs[t].state = "execution_success")
          ~> (tasks[t].status = "completed" /\ t \in Range(completed))
    /\ (worker_jobs[t].state = "execution_error")
          ~> (tasks[t].status = "failed" /\ t \in Range(completed))

\* C10 (as claimed): the pending index never holds more than max_size
\* tasks, also after a failed dispatch re-queued a task.
C10_PendingWithinMaxSize == Len(pending) <= max_size

\* C11: a single cancel (DELETE /lb/tasks/{id} or POST /queue delete) of a
\* QUEUED task of the pending index removes exactly that task from pending,
\* keeping the other pending tasks in their order, sets it CANCELLED, puts
\* it into the completed index and reports success; the dispatched index
\* is unchanged and no cancel request goes upstream.
C11_CancelPendingFrame ==
  [][ \A t \in Created :
        ( /\ t \in Range(pending)
          /\ tasks[t].status = "queued"
          /\ (CancelTaskEndpoint(t) \/ ManageQueueDelete(t)) ) =>
            /\ cancel_task_result(t)
            /\ pending' = SelectSeq(pending, LAMBDA u : u # t)
            /\ tasks'[t].status = "cancelled"
            /\ t \in Range(completed')
            /\ \A u \in TaskIds \ {t} : tasks'[u] = tasks[u]
            /\ dispatched' = dispatched
            /\ upstream_cancels' = upstream_cancels
            /\ worker_jobs' = worker_jobs ]_vars

\* Witness of C11: a task that was cancelled while it waited behind the
\* head of the pending index; the head is still pending.
C11_Witness ==
  /\ pending # <<>>
  /\ \E t \in Range(completed) :
        /\ tasks[t].status = "cancelled"
        /\ tasks[t].retries = 0
        /\ Binding(t) = Unbound
        /\ t \notin dispatched
        /\ upstream_cancels[t] = 0
        /\ Head(pending) < t

\* C12: every upstream submit is issued to a backend that, at that moment,
\* is registered, enabled, HEALTHY and has total_queue < max_queue.
C12_SubmitOnlyToAvailable ==
  [][ (pc # "submit" /\ pc' = "submit") =>
        /\ sel' \in Range(registry)
        /\ backends[sel'].enabled
        /\ backends[sel'].status = "healthy"
        /\ total_queue(sel') < max_queue ]_vars

\* Witness of C12: a submit is in flight to one backend after the other
\* backend was found UNHEALTHY, was disabled or was unregistered, and after
\* an earlier attempt had been refused or had failed.
C12_Witness ==
  /\ pc = "submit"
  /\ \E b \in Backends \ {sel} :
        \/ b \notin Range(registry)
        \/ ~backends[b].enabled
        \/ backends[b].status = "unhealthy"
  /\ \E t \in Created : tasks[t].retries >= 1

\* C13 (as claimed): a worker never holds more than max_queue jobs.
C13_WorkerWithinMaxQueue ==
  \A b \in Backends : Cardinality(Held(b)) <= max_queue

\* C14: a backend whose last unhealthy_threshold or more applied probes all
\* failed is UNHEALTHY, and a HEALTHY backend leaves that class only with
\* the failure that completes a run of unhealthy_threshold.
C14_UnhealthyAfterThreshold ==
  /\ [](\A b \in Range(registry) :
          fail_run[b] >= unhealthy_threshold => backends[b].status = "unhealthy")
  /\ [][ \A b \in Range(registry) :
           (backends[b].status = "healthy" /\ backends'[b].status # "healthy") =>
             /\ backends'[b].status = "unhealthy"
             /\ fail_run'[b] >= unhealthy_threshold ]_vars

\* Witness of C14: one backend UNHEALTHY after unhealthy_threshold failed
\* probes in a row, another still HEALTHY after a single failed probe.
C14_Witness ==
  \E b, d \in Range(registry) :
    /\ fail_run[b] >= unhealthy_threshold
    /\ backends[b].status = "unhealthy"
    /\ fail_run[d] = 1
    /\ fail_run[d] < unhealthy_threshold
    /\ backends[d].status = "healthy"

\* C15: applying a successful probe adds one to consecutive_successes,
\* zeroes consecutive_failures and makes the backend HEALTHY exactly when
\* consecutive_successes has reached healthy_threshold, leaving the class
\* alone otherwise; consecutive_successes and consecutive_failures are never
\* both non-zero, whichever callers' probes overlap.
C15_SuccessfulProbe ==
  /\ [](\A b \in Backends :
          backends[b].consecutive_successes = 0 \/ backends[b].consecutive_failures = 0)
  /\ [][ \A o \in ProbeOwners, b \in Backends :
           (probes[o][b].ok /\ ~probes[o][b].orphan /\ ProbeApply(o, b)) =>
             /\ backends'[b].consecutive_successes = backends[b].consecutive_successes + 1
             /\ backends'[b].consecutive_failures = 0
             /\ backends'[b].status =
                  IF backends'[b].consecutive_successes >= healthy_threshold
                  THEN "healthy" ELSE backends[b].status ]_vars

\* Witness of C15: the periodic run and check_now probe the same backend at
\* once; one success has been applied to a backend that is still UNKNOWN,
\* the other probe is still in flight.
C15_Witness ==
  \E b \in Range(registry) :
    /\ probes["periodic"][b].stage = "done"
    /\ probes["manual"][b].stage \in {"sent", "answered"}
    /\ backends[b].status = "unknown"
    /\ backends[b].consecutive_successes = 1
    /\ backends[b].consecutive_failures = 0

\* C16 (as claimed): when a run of _do_check ends in which a backend went
\* from UNKNOWN or UNHEALTHY to HEALTHY, the dispatch event is set.
C16_HealthyEdgeWakesDispatcher ==
  [][ \A c \in CycleOwners :
        ( /\ cycles[c].state = "running"
          /\ cycles'[c].state = "idle"
          /\ \E b \in Range(registry) :
                /\ cycles[c].old_status[b] \in {"unknown", "unhealthy"}
                /\ backends[b].status = "healthy" ) =>
            dispatch_event' ]_vars

\* C17 (as claimed): once no health check is in flight, the changes of
\* status that happened have been broadcast: some backend_update was sent
\* if any status changed, and no more backend_updates than changes.
C17_ChangeBroadcastOnce ==
  ( /\ \A c \in CycleOwners : cycles[c].state = "idle"
    /\ \A o \in ProbeOwners, b \in Backends : probes[o][b].stage = "none" ) =>
      /\ class_changes > 0 => broadcasts > 0
      /\ broadcasts <= class_changes

\* C18: while a task is the head of the pending index it eventually stops
\* being the head (it is dispatched, failed or cancelled), unless at some
\* point no backend is available; no enqueue and no event is needed for
\* that, and failed attempts do not prevent it.
C18_HeadEventuallyLeaves ==
  \A t \in TaskIds :
    (pending # <<>> /\ Head(pending) = t)
      ~> (pending = <<>> \/ Head(pending) # t \/ get_available_backends = <<>>)

\* Witness of C18: the loop waits with the event cleared while a task is
\* pending and a backend is available (it had none when the task was
\* queued), after an earlier head of the queue left it by a failed attempt.
C18_Witness ==
  /\ pc = "wait"
  /\ ~dispatch_event
  /\ pending # <<>>
  /\ get_available_backends # <<>>
  /\ \E u \in Created : u < Head(pending) /\ tasks[u].retries >= 1

\* C19 (as claimed): when a bridge handles a frame whose prompt_id is
\* recorded for a client, every frame it sends downstream goes to that
\* client and carries the balancer's task id as prompt_id, the client's id
\* as sid and the worker's name as _backend.
C19_FrameTranslatedForOwner ==
  [][ \A b \in Backends :
        ( /\ BridgeHandleMessage(b)
          /\ get_client_by_prompt(Head(ws_frames[b]).prompt_id) # NoClient ) =>
            \A c \in ClientIds : \A i \in DOMAIN sent_in_step(c) :
              LET d == sent_in_step(c)[i]
              IN /\ c = get_client_by_prompt(Head(ws_frames[b]).prompt_id)
                 /\ d.frame.prompt_id = LbId(get_lb_id_by_prompt(Head(ws_frames[b]).prompt_id))
                 /\ d.frame.sid = c
                 /\ d.frame.backend = b ]_vars

\* C20 (as claimed): when a bridge handles a frame with no resolvable
\* target (prompt_id unknown or absent, sid absent or the bridge's own),
\* every frame it sends downstream goes to a client associated with the
\* worker and is of a system type.
C20_UnroutedFrameStaysWithWorkersClients ==
  [][ \A b \in Backends :
        ( /\ BridgeHandleMessage(b)
          /\ get_client_by_prompt(Head(ws_frames[b]).prompt_id) = NoClient
          /\ Head(ws_frames[b]).sid \in {NoClient, bridge_id(b)} ) =>
            \A c \in ClientIds :
              sent_in_step(c) # <<>> =>
                /\ b \in client_backends[c]
                /\ is_system_message(Head(ws_frames[b])) ]_vars

\* C30: a dispatch pass that finds a pending task but no available backend
\* changes nothing (the pending index with its order, the dispatched and the
\* completed index, every task, every backend's counters, the workers) and
\* ends the drain: the loop goes back to its wait.
C30_NoBackendPassChangesNothing ==
  [][ ( /\ pc = "peek"
        /\ pending # <<>>
        /\ get_available_backends = <<>>
        /\ LoopGetPending ) =>
          /\ UNCHANGED <<pending, dispatched, completed, tasks, task_counter>>
          /\ UNCHANGED <<backends, worker_jobs, cur, sel>>
          /\ pc' = "wait" ]_vars

\* Witness of C30: the loop is back in its wait with the event cleared
\* while a task is pending, after two jobs filled the only healthy backend.
C30_Witness ==
  /\ pc = "wait"
  /\ ~dispatch_event
  /\ pending # <<>>
  /\ get_available_backends = <<>>
  /\ Cardinality(dispatched) >= 2
  /\ tasks[Head(pending)].status = "queued"
  /\ tasks[Head(pending)].retries = 0

\* C28 (as claimed): the completed index never holds more than its cap,
\* whichever operation inserted into it.
C28_CompletedWithinCap == Len(completed) <= completed_cap

\* C27 (as claimed): a worker's prompt_id that resolves to a task, through
\* get_task_by_prompt_id or through the WebSocketManager's prompt maps,
\* resolves to a task that is not COMPLETED, FAILED or CANCELLED.
C27_PromptIdResolvesToLiveTask ==
  /\ \A t \in Created :
        (tasks[t].prompt_id # NoPrompt /\ get_task_by_prompt_id(tasks[t].prompt_id) # NoTask)
          => tasks[get_task_by_prompt_id(tasks[t].prompt_id)].status \notin Terminal
  /\ \A p \in DOMAIN prompt_lb_ids : tasks[prompt_lb_ids[p]].status \notin Terminal

\* C26 (as claimed): when DELETE /lb/backends/{name} has unregistered a
\* backend, no task of the dispatched index is bound to it: the tasks that
\* were in flight on it are FAILED and in the completed index.
C26_UnregisterFailsInFlightTasks ==
  [][ \A b \in Backends :
        RemoveBackend(b) =>
          /\ \A t \in dispatched' : tasks'[t].backend_name # b
          /\ \A t \in dispatched :
                tasks[t].backend_name = b =>
                  /\ tasks'[t].status = "failed"
                  /\ t \in Range(completed') ]_vars

\* C29: applying a successful probe of a backend sets its queue_running and
\* queue_pending to the lengths the worker answered, whatever the dispatcher
\* had counted; in every other step queue_running is unchanged and
\* queue_pending changes only by the +1 of a successful submit to that
\* backend; a failed submit leaves both alone.
C29_ProbeReplacesCounters ==
  [][ \A b \in Backends :
        /\ \A o \in ProbeOwners :
              (ProbeApply(o, b) /\ probes[o][b].ok /\ ~probes[o][b].orphan) =>
                /\ backends'[b].queue_running = probes[o][b].queue_running
                /\ backends'[b].queue_pending = probes[o][b].queue_pending
        /\ ~(\E o \in ProbeOwners : ProbeApply(o, b) /\ probes[o][b].ok) =>
              /\ backends'[b].queue_running = backends[b].queue_running
              /\ IF SubmitOk /\ sel = b
                 THEN backends'[b].queue_pending = backends[b].queue_pending + 1
                 ELSE backends'[b].queue_pending = backends[b].queue_pending
        /\ SubmitFail => backends'[b] = backends[b] ]_vars

\* Witness of C29: a successful probe has been applied to a backend on
\* which the dispatcher had counted a pending job: the counters now say one
\* running and none pending, as the worker answered.
C29_Witness ==
  \E b \in Backends :
    /\ probes["periodic"][b].stage = "done"
    /\ fail_run[b] = 0
    /\ backends[b].queue_running = 1
    /\ backends[b].queue_pending = 0
    /\ \E t \in dispatched : tasks[t].backend_name = b
    /\ \E t \in Created : tasks[t].retries >= 1

\* C25 (as claimed): the numbers POST /prompt returned for the accepted
\* submissions start at 1 and are strictly increasing in enqueue order,
\* whatever extra_data the bodies carried; a rejected submission leaves the
\* counter alone.
C25_NumbersIncrease ==
  /\ [](\A t \in Created : t = 1 => response_number(t) = 1)
  /\ [](\A t, u \in Created : t < u => response_number(t) < response_number(u))
  /\ [][AddTaskFull => task_counter' = task_counter]_vars

\* A client's job on backend b that is not over: a task of the dispatched
\* index bound to b whose status is not terminal, or the task whose submit
\* to b is in flight.
has_active_job(c, b) ==
  \/ \E t \in dispatched :
        /\ tasks[t].client_id = c
        /\ tasks[t].backend_name = b
        /\ tasks[t].status \notin Terminal
  \/ pc = "submit" /\ sel = b /\ tasks[cur].client_id = c

\* C21 (as claimed): when a bridge handles a binary frame of its worker, a
\* connected client is sent the frame if and only if it has an active job
\* on that worker.
C21_BinaryToActiveClientsOnly ==
  [][ \A b \in Backends :
        ( /\ BridgeHandleMessage(b)
          /\ Head(ws_frames[b]).type = "binary" ) =>
            \A c \in clients : sent_in_step(c) # <<>> <=> has_active_job(c, b) ]_vars

\* C24: the frames of one bridge that were sent to one client were sent in
\* the order in which they arrived at the bridge.
C24_FramesInReceiptOrder ==
  \A c \in ClientIds : \A i, j \in DOMAIN delivered[c] :
    ( /\ delivered[c][i].bridge = delivered[c][j].bridge
      /\ delivered[c][i].seq < delivered[c][j].seq ) => i < j

\* Witness of C24: a client has been sent three frames of one bridge, the
\* results of two jobs and a preview image.
C24_Witness ==
  \E c \in ClientIds, b \in Backends :
    /\ Len(SelectSeq(delivered[c], LAMBDA d : d.bridge = b)) >= 3
    /\ \E i \in DOMAIN delivered[c] : delivered[c][i].frame.type = "binary"
    /\ \E i \in DOMAIN delivered[c] : delivered[c][i].frame.type = "execution_success"

\* The bridges of worker name b that exist: the one in _bridges and the one
\* a remove_backend has popped and is stopping.
bridges_of(b) ==
  (IF bridges[b] # "none" THEN 1 ELSE 0) + (IF stopping[b] # "none" THEN 1 ELSE 0)

\* The open upstream connections to worker name b.
open_connections_of(b) ==
  (IF bridges[b] = "open" THEN 1 ELSE 0) + (IF stopping[b] = "open" THEN 1 ELSE 0)

\* C22: whatever the interleaving of add_backend, remove_backend and the
\* bridges' reconnection, a worker name has at most one bridge and at most
\* one open upstream connection at any time.
C22_OneBridgePerWorker ==
  \A b \in Backends : bridges_of(b) <= 1 /\ open_connections_of(b) <= 1

\* Witness of C22: a removal is stopping the open bridge of a backend while
\* an add of the same name has registered it again and waits for the lock,
\* and the bridge of another backend is between two connections.
C22_Witness ==
  \E b \in Backends :
    /\ ws_lock = b
    /\ stopping[b] = "open"
    /\ b \in add_waiting
    /\ \E o \in Backends \ {b} : bridges[o] \in {"sleeping", "connecting"}

\* C23 (as claimed): every submit the dispatcher sends to a worker carries
\* the session id of that worker's bridge, whether the worker was enabled
\* at start-up, added through the API, configured disabled and enabled
\* later, or is being removed.
C23_SubmitCarriesBridgeId ==
  [][ (pc # "submit" /\ pc' = "submit") => submit_sid' = bridge_id(sel') ]_vars

\* The names of a list of backend states.
names_of(bs) == {bs[i].name : i \in 1..Len(bs)}
idle_names == names_of(SelectSeq(sched.backends, state_is_idle))
available_names == names_of(SelectSeq(sched.backends, state_is_available))

\* C31: with prefer_idle set the backend selected is idle whenever one is
\* idle, and available when none is idle; with prefer_idle unset it is an
\* available one (under least_busy one of least load among all available
\* ones); the result is empty exactly when no backend is available.
C31_PreferIdle ==
  \A k \in DOMAIN sched.picks :
    LET r == sched.picks[k].name IN
    /\ (sched.prefer_idle /\ idle_names # {}) => r \in idle_names
    /\ available_names # {} => r \in available_names
    /\ available_names = {} => r = NoBackend
    /\ (~sched.prefer_idle /\ sched.strategy = "least_busy" /\ r # NoBackend) =>
         \A i, j \in 1..Len(sched.backends) :
           (sched.backends[i].name = r /\ state_is_available(sched.backends[j]))
             => state_total_queue(sched.backends[i]) <= state_total_queue(sched.backends[j])

\* Witness of C31: a round-robin scheduler with prefer_idle has selected
\* three times while one backend was idle and another available under load.
C31_Witness ==
  /\ sched.prefer_idle
  /\ sched.strategy = "round_robin"
  /\ Len(sched.picks) = MaxPicks
  /\ idle_names # {}
  /\ available_names \ idle_names # {}

\* C32: least_busy returns a candidate of minimal total load, the one
\* registered first among those of minimal load.
C32_LeastBusyFirstOfMinimal ==
  (sched.strategy = "least_busy" /\ candidates(sched) # <<>>) =>
    \A k \in DOMAIN sched.picks :
      LET bs == candidates(sched) IN
      \E i \in 1..Len(bs) :
        /\ bs[i].name = sched.picks[k].name
        /\ \A j \in 1..Len(bs) : state_total_queue(bs[i]) <= state_total_queue(bs[j])
        /\ \A j \in 1..(i - 1) : state_total_queue(bs[j]) > state_total_queue(bs[i])

\* Witness of C32: least_busy has selected among three candidates of which
\* the first is the most loaded and the other two share the minimal load.
C32_Witness ==
  /\ sched.strategy = "least_busy"
  /\ sched.picks # <<>>
  /\ Len(candidates(sched)) = 3
  /\ state_total_queue(candidates(sched)[2]) = state_total_queue(candidates(sched)[3])
  /\ state_total_queue(candidates(sched)[1]) > state_total_queue(candidates(sched)[2])

\* C33: under round_robin with an unchanged list of n candidates, any n
\* consecutive selections return each candidate exactly once, whatever the
\* cursor was before.
C33_RoundRobinCoversAll ==
  (sched.strategy = "round_robin" /\ candidates(sched) # <<>>) =>
    LET n == Len(candidates(sched)) IN
    \A k \in 0..(Len(sched.picks) - n) :
      {sched.picks[k + i].name : i \in 1..n} = names_of(candidates(sched))

\* Witness of C33: two candidates were selected from three times in a row,
\* the first time with a cursor left at 2 by a longer list.
C33_Witness ==
  /\ sched.strategy = "round_robin"
  /\ Len(candidates(sched)) = 2
  /\ Len(sched.picks) = MaxPicks
  /\ sched.picks[1].index >= 2

\* C34 (as claimed): weighted returns a candidate whose weight/(1+load) is
\* maximal in exact arithmetic, the one registered first among the maximal
\* ones.
exactly_at_least(x, y) ==
  x.weight * (1 + state_total_queue(y)) >= y.weight * (1 + state_total_queue(x))

C34_WeightedExactArgmax ==
  (sched.strategy = "weighted" /\ candidates(sched) # <<>>) =>
    \A k \in DOMAIN sched.picks :
      LET bs == candidates(sched) IN
      \E i \in 1..Len(bs) :
        /\ bs[i].name = sched.picks[k].name
        /\ \A j \in 1..Len(bs) : exactly_at_least(bs[i], bs[j])
        /\ \A j \in 1..(i - 1) : ~exactly_at_least(bs[j], bs[i])

\* C37 (as claimed): every job add_task has accepted is in the pending,
\* the dispatched or the terminal index (nothing is evicted from the
\* terminal index here: only mark_completed trims it), so get_task finds it.
C37_AcceptedJobStaysInStore ==
  \A t \in 1..task_counter : get_task(t) # NoTask

\* C40: no wake-up is lost.  An enqueue sets the event in the same step;
\* the event is cleared only by the step that ends the wait and goes on to
\* the peek; and, with the wait ending on the event alone, a set event
\* always leads to a peek (which then can see the job).
C40_NoLostWakeup ==
  /\ [][task_counter' # task_counter => dispatch_event']_vars
  /\ [][(dispatch_event /\ ~dispatch_event') => (pc = "wait" /\ pc' = "peek")]_vars
  /\ (dispatch_event ~> pc = "peek")

\* Witness of C40: a job was enqueued while the loop was inside a drain
\* (an upstream submit in flight, the event cleared before): the event is
\* set again and two jobs are pending.
C40_Witness ==
  /\ pc = "submit"
  /\ dispatch_event
  /\ Len(pending) = 2

\* C35 (as claimed): a running bridge whose connection was lost or refused
\* makes a new attempt; once the removal of a worker has returned (the
\* worker is not registered), no connection attempt is made for it and no
\* frame of it is sent to a client.
C35_BridgeRetriesUntilRemoved ==
  /\ \A b \in Backends : (bridges[b] = "sleeping") ~> (bridges[b] # "sleeping")
  /\ [][ \A b \in Backends :
           (bridges[b] # "connecting" /\ bridges'[b] = "connecting")
             => b \in Range(registry') ]_vars
  /\ [][ \A b \in Backends :
           (BridgeHandleMessage(b) /\ \E c \in ClientIds : sent_in_step(c) # <<>>)
             => b \in Range(registry) ]_vars

\* C36: a broadcast that has ended has tried the send to every client of
\* its snapshot, whichever sends failed before, and has delivered the frame
\* to those whose send did not fail; no step of a broadcast changes
\* _clients.
C36_BroadcastBestEffort ==
  /\ [](bcast.stage = "done" =>
          /\ Len(bcast.log) = Len(bcast.snapshot)
          /\ \A i \in 1..Len(bcast.snapshot) : bcast.log[i].client = bcast.snapshot[i])
  /\ [][ \A ok \in BOOLEAN : BroadcastSend(ok) =>
           /\ clients' = clients
           /\ ok => sent_in_step(bcast.snapshot[bcast.pos]) = <<BackendUpdate>> ]_vars

\* C36 (witness): a broadcast has ended in which the send to one client
\* failed and a later send to another client succeeded, and the client of
\* the failed send is still registered.
C36_Witness ==
  /\ bcast.stage = "done"
  /\ \E i, j \in 1..Len(bcast.log) :
       /\ i < j
       /\ ~bcast.log[i].ok
       /\ bcast.log[j].ok
       /\ bcast.log[i].client \in clients

\* C38 (as claimed): a frame about the job the worker has accepted, handled
\* before dispatch_task has recorded the worker's prompt_id, is sent to the
\* client of the task only (if it is connected), with the balancer's id of
\* the task as prompt_id and, where the frame has a sid, the client's id as
\* sid.
C38_EarlyFrameReachesOwnerTranslated ==
  [][ \A b \in Backends :
        (/\ BridgeHandleMessage(b)
         /\ pc = "answered"
         /\ Head(ws_frames[b]).prompt_id = worker_jobs[cur].prompt_id)
        => LET f == Head(ws_frames[b])
               owner == tasks[cur].client_id
               expected == [type |-> f.type, prompt_id |-> LbId(cur),
                            sid |-> IF f.sid # NoClient THEN owner ELSE NoClient,
                            backend |-> b]
           IN \A c \in ClientIds :
                sent_in_step(c) = IF c = owner /\ c \in clients
                                  THEN <<Sent(expected, b, f)>>
                                  ELSE <<>> ]_vars

\* C39 (as claimed): the socket that connected last under a client id and
\* has not disconnected is the one registered under that id, also after an
\* earlier socket of the same id has disconnected, and a frame sent to the
\* id is written to it.
C39_LiveSocketStaysRegistered ==
  /\ [](\A c \in ClientIds :
          latest_open(c) # NoSocket => client_sockets[c] = latest_open(c))
  /\ [][ \A c \in ClientIds :
           (SendToClient(c) /\ latest_open(c) # NoSocket)
             => last_send'.socket = latest_open(c) ]_vars

====
